---------------------------- MODULE Spec2Model ----------------------------
(***************************************************************************)
(* Model of the auto-tracker control loop of src/auto_tracker.py:          *)
(* RacerTracker (state machine, control law, start trigger, lost-racer     *)
(* handling), CourseMap, DigitalStabilizer, YOLODetector.select_racer and  *)
(* the request side of AxisPTZController.                                  *)
(*                                                                         *)
(* Numbers.  Python floats are modelled by exact integer arithmetic:       *)
(*   - fractions of the configuration (dead zones, anticipation, ...) are  *)
(*     held in hundredths (0.15 is 15);                                    *)
(*   - a bbox is <<x1, y1, x2, y2>> in whole pixels and its centroid is    *)
(*     held doubled (cx2 = x1 + x2), so no half pixel is lost;             *)
(*   - int(x) is truncation toward zero (Trunc).                           *)
(*                                                                         *)
(* Time.  time.time() is an integer number of seconds.  Only differences   *)
(* time.time() - field are ever used by the program, so every timestamp    *)
(* field is held as that difference (its age at the latest clock reading), *)
(* saturated at a cap that lies above every threshold the program compares *)
(* that age with: every age from the cap on takes the same branches and    *)
(* gives the same dead-reckoning progress.  "field = time.time()" sets the *)
(* age to 0 and the passing of dt seconds adds dt to every age (Elapse).   *)
(* All clock readings of one loop iteration return the same second.        *)
(* tracking_start_time is only ever printed and is not held.               *)
(***************************************************************************)
EXTENDS Integers, Sequences, FiniteSets, TLC

\* Python's None where a bbox, a detection or a smoothed value is expected
None == <<>>

STATE_IDLE == "IDLE"
STATE_WAITING == "WAITING"
STATE_TRACKING == "TRACKING"
STATE_FINISHED == "FINISHED"

(***************************************************************************)
(* Bounds of the model.                                                    *)
(***************************************************************************)
\* longest time (s) one grab_frame + detect takes in a single iteration
MaxDt == 1
\* most detections the detector returns for one frame
MaxDets == 1
\* frames_in_zone is followed up to here (a racer may stay in the zone forever)
MaxZoneFrames == 4

(***************************************************************************)
(* Configuration (RacerTracker.__init__, CourseMap.__init__), fractions in *)
(* hundredths, times in seconds.  The values are the defaults of the code, *)
(* but for: the frame, 40 x 20 pixels; ptz_update_hz, 1 (default 15), so   *)
(* that the rate limit 1 / ptz_update_hz is a whole second; lost_timeout,  *)
(* 1 s (default 3.0); alpha, 1.00 (default 0.25), which keeps the smoothed *)
(* crop position an integer.                                               *)
(***************************************************************************)
frame_w == 40
frame_h == 20
ptz_update_hz == 1
pan_dead_zone == 5
tilt_dead_zone == 8
max_pan_speed == 70
max_tilt_speed == 40
anticipation == 20
gate_advance_pct == 15
lost_timeout == 1
racer_frame_pos == 40
gates_ahead == 2
zoom_margin == 120
overscan_pct == 15
alpha == 100
racer_pos == 40
stabilization_enabled == TRUE
\* fixed numbers of the code
est_segment_time == 3
finish_hold == 3
debounce_frames == 3
reconnect_delay == 5
retry_delay == 10
lost_speed == 30
start_speed == 50
reid_pct == 30
speed_limit == 100

(***************************************************************************)
(* Arithmetic helpers.                                                     *)
(***************************************************************************)
Abs(x) == IF x < 0 THEN -x ELSE x
Min(a, b) == IF a <= b THEN a ELSE b
Max(a, b) == IF a >= b THEN a ELSE b
\* int(n / d) for d > 0: Python's int() truncates toward zero
Trunc(n, d) == IF n >= 0 THEN n \div d ELSE -((-n) \div d)
\* dt more seconds on an age that saturates at cap
Elapse(age, dt, cap) == Min(age + dt, cap)
\* last_detection_time is compared with lost_timeout, 3 * lost_timeout and,
\* through the dead-reckoning progress, lost_timeout + est_segment_time
DetectionCap == Max(3 * lost_timeout + 1, lost_timeout + est_segment_time)
\* last_ptz_time is compared with 1 / ptz_update_hz <= 1
PtzCap == 1
\* _finish_time is compared with the hold
FinishCap == finish_hold + 1
\* the age of a control-law move that was never sent
NeverMoved == PtzCap + 1
\* dt more seconds on the age of the latest control-law move
MoveAge(age, dt) == IF age = NeverMoved THEN age ELSE Elapse(age, dt, PtzCap)

(***************************************************************************)
(* Courses.  A gate is [pan, tilt, zoom, trigger_zone]; trigger_zone is    *)
(* NullZone (JSON null, as calibrate_course.py writes for an unmarked gate) *)
(* or [enabled, bbox_pct, direction].                                      *)
(***************************************************************************)
Zone(dir) == [null |-> FALSE, enabled |-> TRUE, bbox_pct |-> <<30, 20, 70, 80>>,
              direction |-> dir]
ZoneOff == [null |-> FALSE, enabled |-> FALSE, bbox_pct |-> <<30, 20, 70, 80>>,
            direction |-> "exit"]
NullZone == [null |-> TRUE, enabled |-> FALSE, bbox_pct |-> <<0, 0, 0, 0>>,
             direction |-> "exit"]
Gate(p, t, z, tz) == [pan |-> p, tilt |-> t, zoom |-> z, trigger_zone |-> tz]

\* three gates right-to-left (pan falling), start gate first, exit trigger
CourseExit == << Gate(30, 5, 3000, Zone("exit")), Gate(20, 4, 3000, NullZone),
                 Gate(10, 3, 3000, NullZone) >>
\* three gates left-to-right, start gate in the middle, enter trigger
CourseEnter == << Gate(10, 5, 1000, ZoneOff), Gate(20, 4, 2001, Zone("enter")),
                  Gate(30, 3, 3000, NullZone) >>
\* a single gate: the start gate is the finish gate
CourseSingle == << Gate(15, 5, 2000, Zone("exit")) >>
\* the trigger zone is on the last gate of two
CourseLast == << Gate(10, 5, 1000, ZoneOff), Gate(10, 4, 2000, Zone("exit")) >>
\* no start gate was marked: only a manual start begins a run
CourseManual == << Gate(30, 5, 3000, ZoneOff), Gate(30, 4, 1000, ZoneOff) >>

\* the calibration was saved without a start zone: every trigger_zone is null
CourseNull == << Gate(30, 5, 3000, NullZone), Gate(20, 4, 3000, NullZone) >>

Courses == {CourseExit, CourseEnter, CourseSingle, CourseLast, CourseManual,
            CourseNull}

(***************************************************************************)
(* Detections: the bboxes the detector may report for a frame.             *)
(***************************************************************************)
\* inside the trigger zone (30..70 % by 20..80 % of the frame)
BoxZone == <<18, 8, 22, 12>>
\* left of the zone, short of the leading-edge band, near both neighbours
BoxLeftMid == <<7, 10, 13, 18>>
\* in the left 15 % of the frame; too far from BoxZone to be re-identified
BoxLeftEdge == <<0, 8, 4, 12>>
\* in the right 15 % of the frame
BoxRightEdge == <<36, 6, 40, 12>>
Boxes == {BoxZone, BoxLeftMid, BoxLeftEdge, BoxRightEdge}

Cx2(b) == b[1] + b[3]
Cy2(b) == b[2] + b[4]
Area(b) == (b[3] - b[1]) * (b[4] - b[2])

\* the sequences of at most n different elements of S
RECURSIVE SeqsUpTo(_, _)
SeqsUpTo(S, n) ==
    IF n = 0 THEN {<<>>}
    ELSE LET shorter == SeqsUpTo(S, n - 1)
             longest == {r \in shorter : Len(r) = n - 1}
         IN shorter \cup UNION { {Append(q, x) : x \in S \ {q[i] : i \in 1..Len(q)}} :
                                   q \in longest }

DetectionLists == SeqsUpTo(Boxes, MaxDets)

(***************************************************************************)
(* CourseMap.                                                              *)
(***************************************************************************)
num_gates(gates) == Len(gates)

\* tz and tz.get('enabled', False)
ZoneEnabled(g) == ~g.trigger_zone.null /\ g.trigger_zone.enabled

get_start_index(gates) ==
    IF \E i \in 1..Len(gates) : ZoneEnabled(gates[i])
    THEN (CHOOSE i \in 1..Len(gates) :
              /\ ZoneEnabled(gates[i])
              /\ \A j \in 1..(i - 1) : ~ZoneEnabled(gates[j])) - 1
    ELSE 0

\* indices are Python's (from 0); gates[i + 1] is the TLA+ element.
\* HasGate(gates, i) is "get_gate_by_index(i) is not None"
HasGate(gates, index) == 0 <= index /\ index < Len(gates)
get_gate_by_index(gates, index) == gates[index + 1]

\* None on a course with no gate: the callers test num_gates first
get_start_gate(gates) == gates[get_start_index(gates) + 1]

\* progress is num / den seconds, den > 0; pan and tilt are returned scaled
\* by den (pan_den / den is the float the code computes)
interpolate_ptz(gate_a, gate_b, num, den) ==
    LET t == Max(0, Min(den, num))
    IN [pan_den |-> gate_a.pan * den + (gate_b.pan - gate_a.pan) * t,
        tilt_den |-> gate_a.tilt * den + (gate_b.tilt - gate_a.tilt) * t,
        den |-> den,
        zoom |-> Trunc(gate_a.zoom * den + (gate_b.zoom - gate_a.zoom) * t, den)]

RECURSIVE SumZoom(_, _, _)
SumZoom(gates, from, to) ==
    IF from > to THEN 0 ELSE gates[from + 1].zoom + SumZoom(gates, from + 1, to)

compute_zoom_for_span(gates, current_index) ==
    LET end_index == Min(current_index + gates_ahead, Len(gates) - 1)
        pan_span == Abs(gates[end_index + 1].pan - gates[current_index + 1].pan)
        count == end_index - current_index + 1
        \* int(avg_zoom / zoom_margin) = int(sum * 100 / (count * zoom_margin))
        scaled == Trunc(SumZoom(gates, current_index, end_index) * 100,
                        count * zoom_margin)
    IN IF end_index <= current_index THEN gates[current_index + 1].zoom
       ELSE IF pan_span > 0 THEN Max(1, scaled)
       ELSE Max(1, gates[current_index + 1].zoom)

(***************************************************************************)
(* YOLODetector.select_racer.                                              *)
(***************************************************************************)
\* four times the squared centroid distance
Dist2(a, b) == (Cx2(a) - Cx2(b)) * (Cx2(a) - Cx2(b)) + (Cy2(a) - Cy2(b)) * (Cy2(a) - Cy2(b))

\* mutant: "dist <= best_dist", the last of the nearest
Nearest_Last(detections, prev_bbox) ==
    detections[CHOOSE i \in 1..Len(detections) :
        /\ \A j \in 1..Len(detections) :
               Dist2(detections[i], prev_bbox) <= Dist2(detections[j], prev_bbox)
        /\ \A j \in (i + 1)..Len(detections) :
               Dist2(detections[j], prev_bbox) > Dist2(detections[i], prev_bbox)]

\* the first detection no later one beats under "dist < best_dist"
Nearest(detections, prev_bbox) ==
    detections[CHOOSE i \in 1..Len(detections) :
        /\ \A j \in 1..Len(detections) :
               Dist2(detections[i], prev_bbox) <= Dist2(detections[j], prev_bbox)
        /\ \A j \in 1..(i - 1) :
               Dist2(detections[j], prev_bbox) > Dist2(detections[i], prev_bbox)]

\* mutant: the last of the largest
Largest_Last(detections) ==
    detections[CHOOSE i \in 1..Len(detections) :
        /\ \A j \in 1..Len(detections) : Area(detections[i]) >= Area(detections[j])
        /\ \A j \in (i + 1)..Len(detections) : Area(detections[j]) < Area(detections[i])]

\* max(detections, key=area): the first of the largest
Largest(detections) ==
    detections[CHOOSE i \in 1..Len(detections) :
        /\ \A j \in 1..Len(detections) : Area(detections[i]) >= Area(detections[j])
        /\ \A j \in 1..(i - 1) : Area(detections[j]) < Area(detections[i])]

\* mutant: the nearest detection is accepted however far it is
TooFar_Never(best, prev_bbox) == FALSE

\* best_dist > diag * 0.3, squared: dist^2 = Dist2 / 4, diag^2 = w^2 + h^2
TooFar(best, prev_bbox) ==
    Dist2(best, prev_bbox) * 100 * 100 > 4 * reid_pct * reid_pct * (frame_w * frame_w + frame_h * frame_h)

select_racer(detections, prev_bbox) ==
    IF Len(detections) = 0 THEN None
    ELSE IF prev_bbox # None
         THEN LET best == Nearest(detections, prev_bbox)
              IN IF TooFar(best, prev_bbox) THEN None ELSE best
         ELSE Largest(detections)

(***************************************************************************)
(* RacerTracker._compute_ptz_correction.                                   *)
(***************************************************************************)
\* next_gate['pan'] - cur_gate['pan'], next index clamped to the last gate
PanDirection(gates, index) ==
    LET next_idx == Min(index + 1, num_gates(gates) - 1)
    IN IF HasGate(gates, index) /\ HasGate(gates, next_idx)
       THEN get_gate_by_index(gates, next_idx).pan - get_gate_by_index(gates, index).pan
       ELSE -1

\* norm_error * (100 * dim) for a doubled centroid c2, the desired point
\* being desired100 / 100 pixels:  (c2/2 - desired100/100) / (dim/2)
NormError(c2, desired100, dim) == 100 * c2 - 2 * desired100

\* |norm_error| < dead_zone
InDeadZone(err, dead_zone, dim) == Abs(err) < dead_zone * dim

\* mutant: the gain is applied and the result is not clamped
SpeedOf_Unclamped(err, max_speed, dim) == Trunc(err * max_speed * 10, 7 * 100 * dim)

\* int(max(-max_speed, min(max_speed, norm_error * max_speed / 0.7)))
SpeedOf(err, max_speed, dim) ==
    LET num == err * max_speed * 10
        den == 7 * 100 * dim
    IN IF num >= max_speed * den THEN max_speed
       ELSE IF num <= -(max_speed * den) THEN -max_speed
       ELSE Trunc(num, den)

\* the tracking configuration the control law reads from self
TrackCfg ==
    [pan_dead_zone |-> pan_dead_zone, tilt_dead_zone |-> tilt_dead_zone,
     max_pan_speed |-> max_pan_speed, max_tilt_speed |-> max_tilt_speed,
     anticipation |-> anticipation, racer_frame_pos |-> racer_frame_pos]

\* the normalised errors (scaled, see NormError) before the dead zone
ErrorX(racer_bbox, pan_direction, cfg) ==
    NormError(Cx2(racer_bbox),
              IF pan_direction < 0 THEN frame_w * (100 - cfg.racer_frame_pos)
              ELSE frame_w * cfg.racer_frame_pos,
              frame_w)
ErrorY(racer_bbox) == NormError(Cy2(racer_bbox), frame_h * 50, frame_h)

\* lines 680-721 for a pan direction and a configuration
ptz_correction(racer_bbox, pan_direction, cfg) ==
    LET ex == ErrorX(racer_bbox, pan_direction, cfg)
        ey == ErrorY(racer_bbox)
        dx == IF InDeadZone(ex, cfg.pan_dead_zone, frame_w) THEN 0 ELSE ex
        dy == IF InDeadZone(ey, cfg.tilt_dead_zone, frame_h) THEN 0 ELSE ey
        ax == IF pan_direction < 0 THEN dx + cfg.anticipation * frame_w
              ELSE dx - cfg.anticipation * frame_w
    IN [pan_speed |-> SpeedOf(ax, cfg.max_pan_speed, frame_w),
        tilt_speed |-> SpeedOf(dy, cfg.max_tilt_speed, frame_h),
        pan_direction |-> pan_direction]

compute_ptz_correction(racer_bbox, gates, index) ==
    ptz_correction(racer_bbox, PanDirection(gates, index), TrackCfg)

(***************************************************************************)
(* RacerTracker._check_gate_advance.                                       *)
(***************************************************************************)
\* mutant: equal pans are taken as a course that runs right to left
check_gate_advance_Leftward(racer_bbox, gates, index) ==
    IF ~HasGate(gates, index) \/ index >= num_gates(gates) - 1 THEN FALSE
    ELSE IF PanDirection(gates, index) <= 0
         THEN 100 * Cx2(racer_bbox) < 2 * frame_w * gate_advance_pct
         ELSE 100 * Cx2(racer_bbox) > 2 * frame_w * (100 - gate_advance_pct)

check_gate_advance(racer_bbox, gates, index) ==
    IF ~HasGate(gates, index) \/ index >= num_gates(gates) - 1 THEN FALSE
    ELSE IF PanDirection(gates, index) < 0
         \* cx < frame_w * gate_advance_pct
         THEN 100 * Cx2(racer_bbox) < 2 * frame_w * gate_advance_pct
         \* cx > frame_w * (1 - gate_advance_pct)
         ELSE 100 * Cx2(racer_bbox) > 2 * frame_w * (100 - gate_advance_pct)

(***************************************************************************)
(* The trigger-zone test of RacerTracker._check_start_trigger.             *)
(***************************************************************************)
InZone(b, tz) ==
    /\ 2 * frame_w * tz.bbox_pct[1] <= 100 * Cx2(b)
    /\ 100 * Cx2(b) <= 2 * frame_w * tz.bbox_pct[3]
    /\ 2 * frame_h * tz.bbox_pct[2] <= 100 * Cy2(b)
    /\ 100 * Cy2(b) <= 2 * frame_h * tz.bbox_pct[4]

person_in_zone(detections, tz) == \E i \in 1..Len(detections) : InZone(detections[i], tz)
person_in_frame(detections) == Len(detections) > 0

(***************************************************************************)
(* DigitalStabilizer.  The smoothed crop origin is None or <<v>>, v in     *)
(* hundredths of a pixel (the float is held to that precision).            *)
(***************************************************************************)
\* the crop of a frame w by h under an overscan in hundredths
crop_w(w, overscan) == Trunc(w * (100 - overscan), 100)
crop_h(h, overscan) == Trunc(h * (100 - overscan), 100)

desired_x(racer_bbox, pan_direction, cw) ==
    IF pan_direction < 0 THEN 50 * Cx2(racer_bbox) - cw * (100 - racer_pos)
    ELSE 50 * Cx2(racer_bbox) - cw * racer_pos

desired_y(racer_bbox, ch) == 50 * Cy2(racer_bbox) - ch * 50

\* mutant: the weights of the new and the held value exchanged
Ema_Swapped(a, ema, desired) ==
    IF ema = None THEN <<desired>>
    ELSE <<((100 - a) * desired + a * ema[1]) \div 100>>

\* a * desired + (1 - a) * ema, or desired when no value is held
Ema(a, ema, desired) ==
    IF ema = None THEN <<desired>>
    ELSE <<(a * desired + (100 - a) * ema[1]) \div 100>>

\* mutant: the origin is held at 0 from below only
Clamp_Loose(ema, size, crop) == Trunc(Max(0, ema[1]), 100)

\* int(max(0, min(ema, size - crop))), in pixels
Clamp(ema, size, crop) == Trunc(Max(0, Min(ema[1], 100 * (size - crop))), 100)

\* update(frame, racer_bbox, pan_direction) on a stabilizer st (overscan_pct,
\* alpha, ema_x, ema_y) and a frame w by h: the smoothed origin it leaves and
\* the crop rectangle it cuts
update(st, w, h, racer_bbox, pan_direction) ==
    LET cw == crop_w(w, st.overscan_pct)
        ch == crop_h(h, st.overscan_pct)
        ex == Ema(st.alpha, st.ema_x, desired_x(racer_bbox, pan_direction, cw))
        ey == Ema(st.alpha, st.ema_y, desired_y(racer_bbox, ch))
    IN [ema_x |-> ex, ema_y |-> ey,
        x1 |-> Clamp(ex, w, cw), y1 |-> Clamp(ey, h, ch),
        crop_w |-> cw, crop_h |-> ch]

\* passthrough(frame) resizes the frame and touches nothing of the stabilizer
passthrough(st) == st

\* what update leaves in the tracker's stabilizer, on the frames and with
\* the overscan and alpha of the configuration
stabilizer_update(s, racer_bbox, pan_direction) ==
    [s EXCEPT !.ema_x = Ema(alpha, @, desired_x(racer_bbox, pan_direction,
                                                 crop_w(frame_w, overscan_pct))),
              !.ema_y = Ema(alpha, @, desired_y(racer_bbox,
                                                 crop_h(frame_h, overscan_pct)))]

stabilizer_reset(s) == [s EXCEPT !.ema_x = None, !.ema_y = None]

(***************************************************************************)
(* AxisPTZController: the request each method sends.  A transport failure  *)
(* is swallowed inside the method, so the caller sees nothing of it.       *)
(***************************************************************************)
\* f'{x:.1f}' of x = n / d, d > 0, in tenths: the nearest tenth (no n / d the
\* model forms lies halfway between two tenths)
Tenths(n, d) ==
    IF n >= 0 THEN (20 * n + d) \div (2 * d) ELSE -((20 * (-n) + d) \div (2 * d))

\* pan and tilt are the fractions pan / den and tilt / den; the request carries
\* them to one decimal
move_absolute(pan, tilt, den, zoom, speed) ==
    [op |-> "move_absolute", pan |-> Tenths(pan, den), tilt |-> Tenths(tilt, den),
     zoom |-> zoom, speed |-> speed]

move_continuous(pan_speed, tilt_speed) ==
    [op |-> "continuouspantiltmove",
     pan |-> Max(-speed_limit, Min(speed_limit, pan_speed)),
     tilt |-> Max(-speed_limit, Min(speed_limit, tilt_speed)),
     zoom |-> 0, speed |-> 0]

ptz_stop == move_continuous(0, 0)

set_zoom(zoom) ==
    [op |-> "zoom", pan |-> 0, tilt |-> 0, zoom |-> zoom, speed |-> 0]

get_position == [op |-> "query_position", pan |-> 0, tilt |-> 0, zoom |-> 0, speed |-> 0]

(***************************************************************************)
(* State of the program.                                                   *)
(***************************************************************************)
VARIABLES
    course,               \* CourseMap.gates, loaded once
    dry_run,              \* --dry-run
    debug,                \* --debug
    pc,                   \* where run() is: "init", "loop" or "done"
    running,              \* the shutdown flag
    state,
    current_gate_index,
    prev_bbox,
    last_detection_time,  \* age, see the header
    last_ptz_time,        \* age
    frames_in_zone,
    ema_x,                \* DigitalStabilizer.ema_x
    ema_y,
    finish_time,          \* _finish_time: None while the attribute is absent, else <<age>>
    ptz,                  \* the requests the latest step sent to the camera, in order
    last,                 \* what the latest step read: its inputs and branch
    zone_streak,          \* history: consecutive in-zone frames of this WAITING period
    finished_age,         \* history: age of the latest entry into FINISHED
    since_move,           \* history: age of the latest control-law move sent
    law,                  \* the control law on its own: its inputs and its result
    call                  \* another function on its own: its arguments and its result

vars == << course, dry_run, debug, pc, running, state, current_gate_index,
           prev_bbox, last_detection_time, last_ptz_time, frames_in_zone, ema_x, ema_y, finish_time, ptz, last, zone_streak,
           finished_age, since_move, law, call >>

\* cv2.waitKey: no key, or a key the branch tests (another key acts as none)
NoKey == "none"
WaitingKeys == {NoKey, "space", "esc"}
TrackingKeySet == {NoKey, "esc", "r"}

\* the fields of self a step works on, the requests it has sent so far,
\* whether it has raised, whether the control law has sent its command,
\* whether the camera can be reached during the step (link) and whether a
\* request of the step was lost in transport (failed), and the number of
\* frames the step has handed to the output sinks (pushed)
Self ==
    [state |-> state, current_gate_index |-> current_gate_index,
     prev_bbox |-> prev_bbox, last_detection_time |-> last_detection_time,
     last_ptz_time |-> last_ptz_time,
     frames_in_zone |-> frames_in_zone, ema_x |-> ema_x, ema_y |-> ema_y,
     finish_time |-> finish_time, running |-> running, ptz |-> <<>>,
     raised |-> FALSE, moved |-> FALSE, link |-> TRUE, failed |-> FALSE,
     pushed |-> 0, dry_run |-> dry_run]

\* dt seconds pass (grab_frame, detect, sleep)
Aged(s, dt) ==
    [s EXCEPT !.last_detection_time = Elapse(@, dt, DetectionCap),
              !.last_ptz_time = Elapse(@, dt, PtzCap),
              !.finish_time = IF @ = None THEN None ELSE <<Elapse(@[1], dt, FinishCap)>>]

\* "if not self.dry_run: self.ptz.<request>"
\* mutant: a request lost in transport is sent once more
Send_Retry(s, request) ==
    IF s.dry_run THEN s
    ELSE IF s.link THEN [s EXCEPT !.ptz = Append(@, request)]
    ELSE [s EXCEPT !.ptz = Append(Append(@, request), request), !.failed = TRUE]

\* the request goes out once; "except requests.exceptions.RequestException:
\* pass" when the camera cannot be reached
Send(s, request) ==
    IF s.dry_run THEN s
    ELSE [s EXCEPT !.ptz = Append(@, request), !.failed = @ \/ ~s.link]

(***************************************************************************)
(* RacerTracker._transition_to.                                            *)
(***************************************************************************)
\* mutant: the previous bbox survives the return to WAITING
EnterWaiting_KeepBbox(s) ==
    LET start_gate == get_start_gate(course)
        s1 == stabilizer_reset([s EXCEPT !.frames_in_zone = 0])
    IN IF num_gates(course) = 0 THEN s1
       ELSE Send(s1, move_absolute(start_gate.pan, start_gate.tilt, 1,
                                   start_gate.zoom, start_speed))

\* mutant: the stabilizer is not reset on the return to WAITING
EnterWaiting_KeepStabilizer(s) ==
    LET start_gate == get_start_gate(course)
        s1 == [s EXCEPT !.frames_in_zone = 0, !.prev_bbox = None]
    IN IF num_gates(course) = 0 THEN s1
       ELSE Send(s1, move_absolute(start_gate.pan, start_gate.tilt, 1,
                                   start_gate.zoom, start_speed))

\* mutant: the camera sweeps back at full speed instead of moving to the start
EnterWaiting_Sweep(s) ==
    Send(stabilizer_reset([s EXCEPT !.frames_in_zone = 0, !.prev_bbox = None]),
         move_continuous(-max_pan_speed, 0))

EnterWaiting(s) ==
    LET start_gate == get_start_gate(course)
        s1 == stabilizer_reset([s EXCEPT !.frames_in_zone = 0, !.prev_bbox = None])
    IN IF num_gates(course) = 0 THEN s1
       ELSE Send(s1, move_absolute(start_gate.pan, start_gate.tilt, 1,
                                   start_gate.zoom, start_speed))

\* mutant: the index of the previous session is kept
EnterTracking_KeepIndex(s) ==
    LET s1 == stabilizer_reset([s EXCEPT !.last_detection_time = 0])
    IN IF ~HasGate(course, s1.current_gate_index) THEN [s1 EXCEPT !.raised = TRUE]
       ELSE Send(s1, set_zoom(compute_zoom_for_span(course, s1.current_gate_index)))

\* mutant: a session begins at the zoom the camera is at
EnterTracking_NoZoom(s) ==
    LET index == get_start_index(course)
        s1 == stabilizer_reset([s EXCEPT !.current_gate_index = index,
                                         !.last_detection_time = 0])
    IN IF ~HasGate(course, index) THEN [s1 EXCEPT !.raised = TRUE] ELSE s1

EnterTracking(s) ==
    LET index == get_start_index(course)
        \* tracking_start_time and last_detection_time = time.time()
        s1 == stabilizer_reset([s EXCEPT !.current_gate_index = index,
                                         !.last_detection_time = 0])
    \* compute_zoom_for_span reads self.gates[current_index]: an IndexError on
    \* a course with no gate
    IN IF ~HasGate(course, index) THEN [s1 EXCEPT !.raised = TRUE]
       ELSE Send(s1, set_zoom(compute_zoom_for_span(course, index)))

EnterFinished(s) == Send(s, ptz_stop)

transition_to(s, new_state) ==
    LET s1 == [s EXCEPT !.state = new_state]
    IN CASE new_state = STATE_WAITING -> EnterWaiting(s1)
         [] new_state = STATE_TRACKING -> EnterTracking(s1)
         [] new_state = STATE_FINISHED -> EnterFinished(s1)
         [] OTHER -> s1

(***************************************************************************)
(* RacerTracker._check_start_trigger: the updated self and what it         *)
(* returns.  A start gate whose trigger_zone is null makes tz.get raise.   *)
(***************************************************************************)
Returns(s, value) == [self |-> s, fired |-> value]

\* mutant: the debounce asks for more than debounce_frames frames
check_start_trigger_Strict(s, detections) ==
    LET tz == get_start_gate(course).trigger_zone
        in_zone == person_in_zone(detections, tz)
        in_frame == person_in_frame(detections)
        counted == [s EXCEPT !.frames_in_zone = @ + 1]
        cleared == [s EXCEPT !.frames_in_zone = 0]
    IN IF num_gates(course) = 0 THEN Returns(s, FALSE)
       ELSE IF tz.null THEN Returns([s EXCEPT !.raised = TRUE], FALSE)
       ELSE IF ~tz.enabled THEN Returns(s, FALSE)
       ELSE IF tz.direction = "exit"
            THEN IF in_zone THEN Returns(counted, FALSE)
                 ELSE IF s.frames_in_zone > debounce_frames /\ in_frame
                      THEN Returns(cleared, TRUE)
                      ELSE IF ~in_frame THEN Returns(cleared, FALSE)
                           ELSE Returns(s, FALSE)
            ELSE IF tz.direction = "enter"
                 THEN IF in_zone
                      THEN Returns(counted, counted.frames_in_zone > debounce_frames)
                      ELSE Returns(s, FALSE)
                 ELSE Returns(s, FALSE)

check_start_trigger(s, detections) ==
    LET tz == get_start_gate(course).trigger_zone
        in_zone == person_in_zone(detections, tz)
        in_frame == person_in_frame(detections)
        counted == [s EXCEPT !.frames_in_zone = @ + 1]
        cleared == [s EXCEPT !.frames_in_zone = 0]
    IN IF num_gates(course) = 0 THEN Returns(s, FALSE)
       ELSE IF tz.null THEN Returns([s EXCEPT !.raised = TRUE], FALSE)
       ELSE IF ~tz.enabled THEN Returns(s, FALSE)
       ELSE IF tz.direction = "exit"
            THEN IF in_zone THEN Returns(counted, FALSE)
                 ELSE IF s.frames_in_zone >= debounce_frames /\ in_frame
                      THEN Returns(cleared, TRUE)
                      ELSE IF ~in_frame THEN Returns(cleared, FALSE)
                           ELSE Returns(s, FALSE)
            ELSE IF tz.direction = "enter"
                 THEN IF in_zone
                      THEN Returns(counted, counted.frames_in_zone >= debounce_frames)
                      ELSE Returns(s, FALSE)
                 ELSE Returns(s, FALSE)

(***************************************************************************)
(* RacerTracker._handle_lost_racer.                                        *)
(***************************************************************************)
\* mutant: dead reckoning starts when the loss equals lost_timeout
handle_lost_racer_AtTimeout(s) ==
    LET elapsed == s.last_detection_time
        index == s.current_gate_index
        next_idx == Min(index + 1, num_gates(course) - 1)
        target == interpolate_ptz(get_gate_by_index(course, index),
                                  get_gate_by_index(course, next_idx),
                                  elapsed - lost_timeout, est_segment_time)
    IN IF elapsed >= lost_timeout
       THEN Send(s, move_absolute(target.pan_den, target.tilt_den, target.den,
                                  target.zoom, lost_speed))
       ELSE s

handle_lost_racer(s) ==
    LET elapsed == s.last_detection_time
        index == s.current_gate_index
        next_idx == Min(index + 1, num_gates(course) - 1)
        target == interpolate_ptz(get_gate_by_index(course, index),
                                  get_gate_by_index(course, next_idx),
                                  elapsed - lost_timeout, est_segment_time)
    IN IF elapsed > lost_timeout /\ HasGate(course, index) /\ HasGate(course, next_idx)
       THEN Send(s, move_absolute(target.pan_den, target.tilt_den, target.den,
                                  target.zoom, lost_speed))
       ELSE s

(***************************************************************************)
(* The branches of the loop body of RacerTracker.run, one per state.       *)
(***************************************************************************)
\* mutant: WAITING keeps the bbox of the largest person in the frame
WaitingStep_Watch(s, detections, key) ==
    LET r == check_start_trigger(s, detections)
        seen == [r.self EXCEPT !.prev_bbox = select_racer(detections, None)]
        s1 == IF r.self.raised THEN r.self
              ELSE IF r.fired THEN transition_to(seen, STATE_TRACKING)
              ELSE seen
    IN IF s1.raised \/ ~debug THEN s1
       ELSE IF key = "space" THEN transition_to(s1, STATE_TRACKING)
       ELSE IF key = "esc" THEN [s1 EXCEPT !.running = FALSE]
       ELSE s1

\* WAITING, lines 924-940
WaitingStep(s, detections, key) ==
    LET r == check_start_trigger(s, detections)
        s1 == IF r.self.raised THEN r.self
              ELSE IF r.fired THEN transition_to(r.self, STATE_TRACKING)
              ELSE r.self
    IN IF s1.raised \/ ~debug THEN s1
       ELSE IF key = "space" THEN transition_to(s1, STATE_TRACKING)
       ELSE IF key = "esc" THEN [s1 EXCEPT !.running = FALSE]
       ELSE s1

\* mutant: every computed command is sent
TrackRacer_Unthrottled(s, racer) ==
    LET s1 == [s EXCEPT !.prev_bbox = racer, !.last_detection_time = 0]
        c == compute_ptz_correction(racer, course, s1.current_gate_index)
        s2 == [Send(s1, move_continuous(c.pan_speed, c.tilt_speed))
                  EXCEPT !.last_ptz_time = 0, !.moved = ~s1.dry_run]
        old_gate == s2.current_gate_index
        new_gate == Min(old_gate + 1, num_gates(course) - 1)
        moved == [s2 EXCEPT !.current_gate_index = new_gate]
        zoomed == IF new_gate # old_gate
                  THEN Send(moved, set_zoom(compute_zoom_for_span(course, new_gate)))
                  ELSE moved
        s3 == IF check_gate_advance(racer, course, old_gate)
              THEN IF new_gate >= num_gates(course) - 1
                   THEN transition_to(zoomed, STATE_FINISHED)
                   ELSE zoomed
              ELSE s2
    IN IF stabilization_enabled THEN stabilizer_update(s3, racer, c.pan_direction)
       ELSE s3

\* TRACKING with a racer selected, lines 947-987
TrackRacer(s, racer) ==
    LET s1 == [s EXCEPT !.prev_bbox = racer, !.last_detection_time = 0]
        c == compute_ptz_correction(racer, course, s1.current_gate_index)
        \* now - self.last_ptz_time >= 1.0 / self.ptz_update_hz
        s2 == IF s1.last_ptz_time * ptz_update_hz >= 1
              THEN [Send(s1, move_continuous(c.pan_speed, c.tilt_speed))
                       EXCEPT !.last_ptz_time = 0, !.moved = ~s1.dry_run]
              ELSE s1
        old_gate == s2.current_gate_index
        new_gate == Min(old_gate + 1, num_gates(course) - 1)
        moved == [s2 EXCEPT !.current_gate_index = new_gate]
        zoomed == IF new_gate # old_gate
                  THEN Send(moved, set_zoom(compute_zoom_for_span(course, new_gate)))
                  ELSE moved
        s3 == IF check_gate_advance(racer, course, old_gate)
              THEN IF new_gate >= num_gates(course) - 1
                   THEN transition_to(zoomed, STATE_FINISHED)
                   ELSE zoomed
              ELSE s2
    IN IF stabilization_enabled THEN stabilizer_update(s3, racer, c.pan_direction)
       ELSE s3

\* mutant: 'r' restarts the run instead of returning to WAITING
TrackingKeys_Restart(s, key) ==
    IF ~debug THEN s
    ELSE IF key = "esc" THEN transition_to(s, STATE_FINISHED)
    ELSE IF key = "r" THEN transition_to(s, STATE_TRACKING)
    ELSE s

\* the debug keys of the TRACKING branch, lines 1006-1014
\* mutant: the keys set the state and skip the entry actions
TrackingKeys_Bare(s, key) ==
    IF ~debug THEN s
    ELSE IF key = "esc" THEN [s EXCEPT !.state = STATE_FINISHED]
    ELSE IF key = "r" THEN [s EXCEPT !.state = STATE_WAITING]
    ELSE s

TrackingKeys(s, key) ==
    IF ~debug THEN s
    ELSE IF key = "esc" THEN transition_to(s, STATE_FINISHED)
    ELSE IF key = "r" THEN transition_to(s, STATE_WAITING)
    ELSE s

\* mutant: the run is abandoned as soon as dead reckoning would start
HardLoss_Early(s) == s.last_detection_time > lost_timeout

\* time.time() - self.last_detection_time > self.lost_timeout * 3
HardLoss(s) == s.last_detection_time > lost_timeout * 3

\* RacerTracker._output_frame: the frame goes to the sinks that are open
output_frame(s) == [s EXCEPT !.pushed = @ + 1]

\* TRACKING, lines 942-1014; a hard loss ends the iteration ("continue")
TrackingStep(s, detections, key) ==
    LET racer == select_racer(detections, s.prev_bbox)
        lost == handle_lost_racer(s)
    IN IF racer # None THEN TrackingKeys(output_frame(TrackRacer(s, racer)), key)
       ELSE IF HardLoss(lost) THEN transition_to(Send(lost, ptz_stop), STATE_WAITING)
       ELSE TrackingKeys(output_frame(lost), key)

\* mutant: after the hold the machine goes where the class docstring says
FinishedStep_ToIdle(s) ==
    LET s1 == IF s.finish_time = None THEN [s EXCEPT !.finish_time = <<0>>] ELSE s
    IN IF s1.finish_time[1] > finish_hold
       THEN transition_to([s1 EXCEPT !.finish_time = None], STATE_IDLE)
       ELSE s1

\* mutant: after the hold the next run starts at once
FinishedStep_ToTracking(s) ==
    LET s1 == IF s.finish_time = None THEN [s EXCEPT !.finish_time = <<0>>] ELSE s
    IN IF s1.finish_time[1] > finish_hold
       THEN transition_to([s1 EXCEPT !.finish_time = None], STATE_TRACKING)
       ELSE s1

\* FINISHED, lines 1016-1025
FinishedStep(s) ==
    LET s1 == IF s.finish_time = None THEN [s EXCEPT !.finish_time = <<0>>] ELSE s
    IN IF s1.finish_time[1] > finish_hold
       THEN transition_to([s1 EXCEPT !.finish_time = None], STATE_WAITING)
       ELSE s1

\* RacerTracker.cleanup
\* mutant: cleanup releases the resources and leaves the camera moving
cleanup_NoStop(s) == s

cleanup(s) == Send(s, ptz_stop)

(***************************************************************************)
(* The steps of run().                                                     *)
(***************************************************************************)
\* what a step leaves in "last"
Log(op, key, racer, in_zone, in_frame, fired, elapsed) ==
    [op |-> op, from |-> state, gate |-> current_gate_index, key |-> key,
     racer |-> racer, in_zone |-> in_zone, in_frame |-> in_frame,
     fired |-> fired, elapsed |-> elapsed, before |-> 0, streak |-> 0,
     gap |-> 0, moved |-> FALSE, failed |-> FALSE, pushed |-> 0]

Quiet(op) == Log(op, NoKey, None, FALSE, FALSE, FALSE, 0)

\* the step's result becomes the program's state; an exception raised in the
\* loop body leaves through "finally: self.cleanup()"
Commit(s, dt) ==
    LET f == IF s.raised THEN cleanup(s) ELSE s
    IN /\ state' = f.state
       /\ current_gate_index' = f.current_gate_index
       /\ prev_bbox' = f.prev_bbox
       /\ last_detection_time' = f.last_detection_time
       /\ last_ptz_time' = f.last_ptz_time
       /\ frames_in_zone' = f.frames_in_zone
       /\ ema_x' = f.ema_x
       /\ ema_y' = f.ema_y
       /\ finish_time' = f.finish_time
       /\ running' = f.running
       /\ ptz' = f.ptz
       /\ finished_age' = IF f.state # STATE_FINISHED THEN 0
                          ELSE IF state # STATE_FINISHED THEN 0
                          ELSE Elapse(finished_age, dt, FinishCap)
       /\ since_move' = IF f.moved THEN 0
                        ELSE MoveAge(since_move, dt)
       /\ UNCHANGED << course, dry_run, debug, law, call >>

(***************************************************************************)
(* The control law on its own: _compute_ptz_correction and move_continuous *)
(* applied to bboxes all over and beyond the frame, both directions of     *)
(* travel, and several configurations.                                     *)
(***************************************************************************)
\* bboxes with centroids left of, inside, and right of the frame, on and next
\* to both desired points (x 16 and 24, y 10), whole and half pixels
LawBoxes ==
    { <<x, y, x + w, y + h>> : x \in {-30, 0, 14, 20, 22, 30, 60},
                               y \in {-20, 4, 8, 12, 40}, w \in {4, 5}, h \in {4, 5} }
\* pan deltas between the gate and the next: falling, none (last gate), rising
LawDirections == {-10, 0, 10}
LawConfigs ==
    { [TrackCfg EXCEPT !.anticipation = a, !.max_pan_speed = m[1],
                       !.max_tilt_speed = m[2]] :
          a \in {0, anticipation}, m \in { <<max_pan_speed, max_tilt_speed>>, <<150, 120>> } }

NoLaw ==
    [done |-> FALSE, bbox |-> <<0, 0, 0, 0>>, pan_direction |-> 0, cfg |-> TrackCfg,
     pan_speed |-> 0, tilt_speed |-> 0, request |-> ptz_stop]

\* one call of the control law on the inputs held in law, and the request
\* move_continuous makes of its result
ControlLaw ==
    /\ ~law.done
    /\ LET c == ptz_correction(law.bbox, law.pan_direction, law.cfg)
       IN law' = [law EXCEPT !.done = TRUE,
                             !.pan_speed = c.pan_speed, !.tilt_speed = c.tilt_speed,
                             !.request = move_continuous(c.pan_speed, c.tilt_speed)]
    /\ UNCHANGED << course, dry_run, debug, pc, running, state, current_gate_index,
                    prev_bbox, last_detection_time, last_ptz_time,
                    frames_in_zone, ema_x, ema_y, finish_time, ptz, last,
                    zone_streak, finished_age, since_move, call >>

\* no function is being called on its own
NoCall == [done |-> FALSE]

\* the tracker RacerTracker.__init__ leaves
Constructed ==
    /\ dry_run \in BOOLEAN
    /\ debug \in BOOLEAN
    /\ pc = "init"
    /\ running = TRUE
    /\ state = STATE_IDLE
    /\ current_gate_index = 0
    /\ prev_bbox = None
    /\ last_detection_time = DetectionCap
    /\ last_ptz_time = PtzCap
    /\ frames_in_zone = 0
    /\ ema_x = None
    /\ ema_y = None
    /\ finish_time = None
    /\ ptz = <<>>
    /\ last = Quiet("init")
    /\ zone_streak = 0
    /\ finished_age = 0
    /\ since_move = NeverMoved

Init ==
    /\ course \in Courses
    /\ Constructed
    /\ law = NoLaw
    /\ call = NoCall

\* connect_stream() fails before the loop: sleep 10 s and run() again.  The
\* log's "before" is the parity of the number of calls of run() so far.
ConnectFail ==
    /\ pc = "init"
    /\ pc' = pc
    /\ last' = [Quiet("connect_fail") EXCEPT !.before = 1 - last.before]
    /\ zone_streak' = zone_streak
    /\ Commit(Aged(Self, retry_delay), retry_delay)

\* the stream is open: test the PTZ connection, then force WAITING.  up:
\* the camera can be reached during the step.
Start(up) ==
    LET done == transition_to(Send([Self EXCEPT !.link = up], get_position),
                              STATE_WAITING)
    IN /\ pc = "init"
       /\ pc' = "loop"
       /\ zone_streak' = 0
       /\ Commit(done, 0)
       /\ last' = [Quiet("start") EXCEPT !.failed = done.failed]

\* mutant: a lost stream forgets the racer and the smoothed crop position
GrabFail_Forget ==
    /\ pc = "loop" /\ running
    /\ pc' = pc
    /\ \E dt \in {reconnect_delay, reconnect_delay + retry_delay} :
           Commit(Aged(stabilizer_reset([Self EXCEPT !.prev_bbox = None]), dt), dt)
    /\ last' = Quiet("grab_fail")
    /\ zone_streak' = zone_streak

\* grab_frame() returns None: sleep 5 s, reconnect, sleep 10 s more if that fails
GrabFail ==
    /\ pc = "loop" /\ running
    /\ pc' = pc
    /\ \E dt \in {reconnect_delay, reconnect_delay + retry_delay} :
           Commit(Aged(Self, dt), dt)
    /\ last' = Quiet("grab_fail")
    /\ zone_streak' = zone_streak

\* the hard loss of the TRACKING branch leaves the iteration by "continue"
Continues(s, detections) ==
    /\ s.state = STATE_TRACKING
    /\ select_racer(detections, s.prev_bbox) = None
    /\ HardLoss(handle_lost_racer(s))

\* mutant: the heartbeat asks for the position in dry-run too
Heartbeat_Unguarded(s, left, beat) ==
    IF left \/ ~beat THEN s ELSE [s EXCEPT !.ptz = Append(@, get_position)]

\* the heartbeat that ends the loop body, lines 1032-1037, on a frame whose
\* number is a multiple of 100 (beat); an exception or a "continue" in the
\* branch before it (left) passes it by
Heartbeat(s, left, beat) ==
    IF left \/ ~beat THEN s ELSE Send(s, get_position)

\* the loop body on a frame, by the state the frame finds: lines 924-940,
\* 942-1014 and 1016-1030, each followed by the heartbeat
WaitingBody(s, detections, key, beat) ==
    Heartbeat(WaitingStep(s, detections, key),
              WaitingStep(s, detections, key).raised, beat)

TrackingBody(s, detections, key, beat) ==
    Heartbeat(TrackingStep(s, detections, key), Continues(s, detections), beat)

FinishedBody(s, beat) == Heartbeat(FinishedStep(s), FALSE, beat)

\* what the step leaves behind: an exception goes through cleanup()
Outcome(s) == IF s.raised THEN cleanup(s) ELSE s

WaitingFrame(up, beat) ==
    /\ pc = "loop" /\ running /\ state = STATE_WAITING
    /\ \E dt \in 0..MaxDt, detections \in DetectionLists,
          key \in IF debug THEN WaitingKeys ELSE {NoKey} :
         LET tz == get_start_gate(course).trigger_zone
             in_zone == /\ num_gates(course) > 0
                        /\ ~tz.null /\ tz.enabled /\ person_in_zone(detections, tz)
             streak == IF in_zone THEN zone_streak + 1 ELSE 0
             s == Aged([Self EXCEPT !.link = up], dt)
             done == WaitingBody(s, detections, key, beat)
         IN /\ done.frames_in_zone <= MaxZoneFrames
            /\ Commit(done, dt)
            /\ pc' = IF done.raised THEN "done" ELSE pc
            /\ last' = [Log("waiting", key, None, in_zone,
                            person_in_frame(detections),
                            check_start_trigger(s, detections).fired, 0)
                          EXCEPT !.before = zone_streak, !.streak = streak,
                                 !.failed = Outcome(done).failed,
                                 !.pushed = done.pushed]
            /\ zone_streak' = streak

TrackingFrame(up, beat) ==
    /\ pc = "loop" /\ running /\ state = STATE_TRACKING
    /\ pc' = pc
    /\ \E dt \in 0..MaxDt, detections \in DetectionLists,
          key \in IF debug THEN TrackingKeySet ELSE {NoKey} :
         LET s == Aged([Self EXCEPT !.link = up], dt)
             done == TrackingBody(s, detections, key, beat)
             racer == select_racer(detections, prev_bbox)
         IN /\ Commit(done, dt)
            \* elapsed: the loss a frame without a racer sees; gap: the time since
            \* the control law last sent, on a frame with a racer
            /\ last' = [Log("tracking", key, racer, FALSE, FALSE, FALSE,
                            IF racer = None THEN s.last_detection_time ELSE 0)
                          EXCEPT !.gap = IF racer = None THEN 0
                                         ELSE MoveAge(since_move, dt),
                                 !.moved = done.moved,
                                 !.failed = done.failed,
                                 !.pushed = done.pushed]
    /\ zone_streak' = 0

FinishedFrame(up, beat) ==
    /\ pc = "loop" /\ running /\ state = STATE_FINISHED
    /\ pc' = pc
    /\ \E dt \in 0..MaxDt :
         LET done == FinishedBody(Aged([Self EXCEPT !.link = up], dt), beat)
         IN /\ Commit(done, dt)
            /\ last' = [Log("finished", NoKey, None, FALSE, FALSE, FALSE,
                            Elapse(finished_age, dt, FinishCap))
                          EXCEPT !.failed = done.failed, !.pushed = done.pushed]
    /\ zone_streak' = 0

\* SIGINT / SIGTERM: signal_handler clears the flag
SignalHandler ==
    /\ pc \in {"init", "loop"} /\ running
    /\ running' = FALSE
    /\ last' = Quiet("signal")
    /\ ptz' = <<>>
    /\ UNCHANGED << course, dry_run, debug, pc, state, current_gate_index,
                    prev_bbox, last_detection_time, last_ptz_time,
                    frames_in_zone, ema_x, ema_y,
                    finish_time, zone_streak, finished_age, since_move, law, call >>

\* "while self.running" is false: leave the loop through cleanup()
Exit(up) ==
    /\ pc = "loop" /\ ~running
    /\ pc' = "done"
    /\ LET done == cleanup([Self EXCEPT !.link = up])
       IN /\ ptz' = done.ptz
          /\ last' = [Quiet("exit") EXCEPT !.failed = done.failed]
    /\ UNCHANGED << course, dry_run, debug, running, state, current_gate_index,
                    prev_bbox, last_detection_time, last_ptz_time,
                    frames_in_zone, ema_x, ema_y,
                    finish_time, zone_streak, finished_age, since_move, law, call >>

\* KeyboardInterrupt reaches the loop: "except KeyboardInterrupt", then finally
Interrupt(up) ==
    /\ pc = "loop"
    /\ pc' = "done"
    /\ LET done == cleanup([Self EXCEPT !.link = up])
       IN /\ ptz' = done.ptz
          /\ last' = [Quiet("interrupt") EXCEPT !.failed = done.failed]
    /\ UNCHANGED << course, dry_run, debug, running, state, current_gate_index,
                    prev_bbox, last_detection_time, last_ptz_time,
                    frames_in_zone, ema_x, ema_y,
                    finish_time, zone_streak, finished_age, since_move, law, call >>

\* the camera answers every request, and the frames are those between two
\* heartbeats
RunStart == Start(TRUE)
WaitingIteration == WaitingFrame(TRUE, FALSE)
TrackingIteration == TrackingFrame(TRUE, FALSE)
FinishedIteration == FinishedFrame(TRUE, FALSE)
LoopExit == Exit(TRUE)
KeyboardInterrupt == Interrupt(TRUE)

Next ==
    \/ ConnectFail
    \/ RunStart
    \/ GrabFail
    \/ WaitingIteration
    \/ TrackingIteration
    \/ FinishedIteration
    \/ SignalHandler
    \/ LoopExit
    \/ KeyboardInterrupt

Spec == Init /\ [][Next]_vars

\* the same program with a camera that may be out of reach during any step
\* and with the frames on which the heartbeat falls.  The transport matters
\* only when requests are sent, that is, not in dry-run; the runs are those
\* of the unattended program, without the debug window.
LinkInit ==
    /\ course \in {CourseExit, CourseSingle}
    /\ Constructed
    /\ ~dry_run /\ ~debug
    /\ law = NoLaw
    /\ call = NoCall

LinkRunStart == \E up \in BOOLEAN : Start(up)
LinkWaitingIteration == \E up \in BOOLEAN, beat \in BOOLEAN : WaitingFrame(up, beat)
LinkTrackingIteration == \E up \in BOOLEAN, beat \in BOOLEAN : TrackingFrame(up, beat)
LinkFinishedIteration == \E up \in BOOLEAN, beat \in BOOLEAN : FinishedFrame(up, beat)
LinkLoopExit == \E up \in BOOLEAN : Exit(up)
LinkKeyboardInterrupt == \E up \in BOOLEAN : Interrupt(up)

LinkNext ==
    \/ ConnectFail
    \/ LinkRunStart
    \/ GrabFail
    \/ LinkWaitingIteration
    \/ LinkTrackingIteration
    \/ LinkFinishedIteration
    \/ SignalHandler
    \/ LinkLoopExit
    \/ LinkKeyboardInterrupt

LinkSpec == LinkInit /\ [][LinkNext]_vars

\* run() always goes on.  Before the loop connect_stream() returns, whether
\* it succeeds or fails being up to the network; in the loop an iteration
\* ends and the next one begins, or the loop is left.
Connect ==
    \/ ConnectFail
    \/ RunStart

LoopBody ==
    \/ GrabFail
    \/ WaitingIteration
    \/ TrackingIteration
    \/ FinishedIteration
    \/ LoopExit

FairSpec == Spec /\ WF_vars(Connect) /\ WF_vars(LoopBody)

\* a configuration whose "gates" list is empty.  The constructor and run()
\* accept it; the first entry to TRACKING on it raises in the zoom computation.
CourseEmpty == << >>

\* every course the constructor loads: those of Courses, which have a gate as
\* a course must, and the empty one
Loadable == Courses \cup {CourseEmpty}

LoadedInit ==
    /\ course \in Loadable
    /\ Constructed
    /\ law = NoLaw
    /\ call = NoCall

LoadedSpec == LoadedInit /\ [][Next]_vars

\* the control law alone: the inputs of one call, then the call
LawInit ==
    /\ Constructed
    /\ course = CourseExit /\ ~dry_run /\ ~debug
    /\ law \in { [NoLaw EXCEPT !.bbox = b, !.pan_direction = d, !.cfg = c] :
                   b \in LawBoxes, d \in LawDirections, c \in LawConfigs }
    /\ call = NoCall

LawSpec == LawInit /\ [][ControlLaw]_vars


(***************************************************************************)
(* The program started with --dry-run (main, lines 1074-1075 and 1101):    *)
(* every course, with and without the debug keys, and every frame either   *)
(* one that ends in the heartbeat or one between two heartbeats.           *)
(***************************************************************************)
DryInit ==
    /\ course \in Courses
    /\ Constructed
    /\ dry_run
    /\ law = NoLaw
    /\ call = NoCall

DryWaitingIteration == \E beat \in BOOLEAN : WaitingFrame(TRUE, beat)
DryTrackingIteration == \E beat \in BOOLEAN : TrackingFrame(TRUE, beat)
DryFinishedIteration == \E beat \in BOOLEAN : FinishedFrame(TRUE, beat)

DryNext ==
    \/ ConnectFail
    \/ RunStart
    \/ GrabFail
    \/ DryWaitingIteration
    \/ DryTrackingIteration
    \/ DryFinishedIteration
    \/ SignalHandler
    \/ LoopExit
    \/ KeyboardInterrupt

DrySpec == DryInit /\ [][DryNext]_vars

(***************************************************************************)
(* The functions of the program that the loop calls, each on its own:      *)
(* the arguments of one call are drawn at the start, then the call is made.*)
(***************************************************************************)
\* the tracker at rest while a function is called on its own
Standby ==
    /\ Constructed
    /\ course = CourseExit /\ ~dry_run /\ ~debug
    /\ law = NoLaw

program == << course, dry_run, debug, pc, running, state, current_gate_index,
             prev_bbox, last_detection_time, last_ptz_time, frames_in_zone,
             ema_x, ema_y, finish_time, ptz, last, zone_streak, finished_age,
             since_move, law >>

\* most detections in a frame handed to select_racer on its own
MaxSelect == 3

\* the racer of the frame before: centroid (20, 10)
BoxPrev == <<18, 8, 22, 12>>
\* a racer of the frame before in the corner: centroid (2, 2)
BoxCorner == <<0, 0, 4, 4>>
\* two boxes of area 16 at the same distance 3 from BoxPrev, right and left
BoxNearRight == <<21, 8, 25, 12>>
BoxNearLeft == <<15, 8, 19, 12>>
\* area 16, centroid (32, 16): at 0.3 of the diagonal from BoxPrev, to the bit
\* (12^2 + 6^2 = 180 = 0.09 * (40^2 + 20^2))
BoxAtLimit == <<30, 14, 34, 18>>
\* one pixel further
BoxPastLimit == <<31, 14, 35, 18>>
\* two boxes of area 80, the first far from BoxPrev, the second within reach
BoxBigFar == <<2, 2, 10, 12>>
BoxBigNear == <<28, 2, 36, 12>>
SelectBoxes == {BoxNearRight, BoxNearLeft, BoxAtLimit, BoxPastLimit, BoxBigFar,
                BoxBigNear}

SelectInit ==
    /\ Standby
    /\ call \in { [done |-> FALSE, detections |-> d, prev_bbox |-> p, result |-> None] :
                    d \in SeqsUpTo(SelectBoxes, MaxSelect),
                    p \in {None, BoxPrev, BoxCorner} }

\* self.detector.select_racer(detections, self.prev_bbox, frame.shape)
SelectRacer ==
    /\ ~call.done
    /\ call' = [call EXCEPT !.done = TRUE,
                            !.result = select_racer(call.detections, call.prev_bbox)]
    /\ UNCHANGED program

SelectSpec == SelectInit /\ [][SelectRacer]_vars

\* most gates of a course handed to compute_zoom_for_span on its own
MaxSpanGates == 3

\* gates at three pans, with zooms that include 0 and 1
SpanGates == { Gate(p, 5, z, NullZone) : p \in {10, 20, 30}, z \in {0, 1, 3000} }

\* the sequences over S of length n
RECURSIVE SeqsOfLen(_, _)
SeqsOfLen(S, n) ==
    IF n = 0 THEN {<<>>}
    ELSE {Append(q, x) : q \in SeqsOfLen(S, n - 1), x \in S}

SpanCourses == UNION { SeqsOfLen(SpanGates, n) : n \in 1..MaxSpanGates }

ZoomInit ==
    /\ Standby
    /\ call \in { [done |-> FALSE, gates |-> g, index |-> i, result |-> 0] :
                    g \in SpanCourses, i \in 0..(MaxSpanGates - 1) }
    /\ HasGate(call.gates, call.index)

\* self.course.compute_zoom_for_span(self.current_gate_index)
ZoomForSpan ==
    /\ ~call.done
    /\ call' = [call EXCEPT !.done = TRUE,
                            !.result = compute_zoom_for_span(call.gates, call.index)]
    /\ UNCHANGED program

ZoomSpec == ZoomInit /\ [][ZoomForSpan]_vars


\* significant bits of a float of the model (a double has 53)
Precision == 4

RECURSIVE Pow2(_)
Pow2(n) == IF n = 0 THEN 1 ELSE 2 * Pow2(n - 1)

\* the spacing of the floats around the magnitude n: the least power of two
\* u with n < 2^Precision * u
RECURSIVE UlpOf(_, _)
UlpOf(n, u) == IF n < Pow2(Precision) * u THEN u ELSE UlpOf(n, 2 * u)

\* the float nearest to the number v, ties to the even significand: what a
\* float operation returns when its exact result is v
Fl(v) ==
    LET n == Abs(v)
        u == UlpOf(n, 1)
        q == n \div u
        r == n % u
        m == IF 2 * r > u \/ (2 * r = u /\ q % 2 = 1) THEN q + 1 ELSE q
    IN IF v < 0 THEN -(m * u) ELSE m * u

\* x_a + (x_b - x_a) * t as the machine computes it, t = max(0.0, min(1.0,
\* num / den)): each of the three operations rounds its result to a float.
\* The operands are in sixteenths, which keeps every product with a t in
\* quarters a whole number.
interpolate_float(x_a, x_b, num, den) ==
    LET t == Max(0, Min(den, num))
    IN Fl(x_a + Fl((Fl(x_b - x_a) * t) \div den))

\* progress is handed over in quarters
Quarters == 4
InterpProgress == {-2, 0, 1, 2, 3, 4, 6}
\* pans and tilts, in sixteenths, that are floats of the model
InterpPans == { x \in {-288, -160, 0, 112, 240} : Fl(x) = x }
InterpTilts == { x \in {-160, 112} : Fl(x) = x }
InterpZooms == {1000, 2001, 3000}
InterpGates == { Gate(p, t, z, NullZone) :
                   p \in InterpPans, t \in InterpTilts, z \in InterpZooms }

InterpInit ==
    /\ Standby
    /\ call \in { [done |-> FALSE, gate_a |-> a, gate_b |-> b, progress |-> n,
                   result |-> None] :
                    a \in InterpGates, b \in InterpGates, n \in InterpProgress }

\* self.course.interpolate_ptz(gate_a, gate_b, progress): pan and tilt are
\* floats, the zoom is an int of the exact value (the zooms are ints far
\* below 2^53)
Interpolate ==
    /\ ~call.done
    /\ call' = [call EXCEPT
           !.done = TRUE,
           !.result = [pan |-> interpolate_float(call.gate_a.pan, call.gate_b.pan,
                                                 call.progress, Quarters),
                       tilt |-> interpolate_float(call.gate_a.tilt, call.gate_b.tilt,
                                                  call.progress, Quarters),
                       zoom |-> interpolate_ptz(call.gate_a, call.gate_b,
                                                call.progress, Quarters).zoom]]
    /\ UNCHANGED program

InterpSpec == InterpInit /\ [][Interpolate]_vars


\* most calls made on a stabilizer on its own
MaxCalls == 3

\* frames, as <<w, h>>: that of the configuration, a single pixel, an odd size
StabFrames == {<<frame_w, frame_h>>, <<1, 1>>, <<7, 5>>}
\* overscan fractions of [0, 1), in hundredths
StabOverscans == {0, 15, 99}
StabAlphas == {25, 100}
\* a box in the frame, one on its edge, and two whose centroid is outside
\* the frame, above left and below right
StabBoxes == {<<18, 8, 22, 12>>, <<36, 0, 40, 6>>, <<-30, -30, -10, -10>>,
              <<100, 100, 120, 120>>}

\* a stabilizer as constructed (lines 362-372) and the frame size of the
\* camera that feeds it
StabInit ==
    /\ Standby
    /\ call \in { [overscan_pct |-> o, alpha |-> a, ema_x |-> None, ema_y |-> None,
                   frame |-> f, calls |-> 0, op |-> "init",
                   before |-> <<None, None>>, desired |-> <<0, 0>>,
                   rect |-> <<0, 0, 0, 0>>] :
                    o \in StabOverscans, a \in StabAlphas, f \in StabFrames }

\* self.stabilizer.update(frame, racer['bbox'], pan_dir)
StabUpdate ==
    /\ call.calls < MaxCalls
    /\ \E b \in StabBoxes, dir \in {-1, 1} :
         LET out == update(call, call.frame[1], call.frame[2], b, dir)
         IN call' = [call EXCEPT
                !.ema_x = out.ema_x, !.ema_y = out.ema_y,
                !.calls = @ + 1, !.op = "update",
                !.before = <<call.ema_x, call.ema_y>>,
                !.desired = <<desired_x(b, dir, out.crop_w), desired_y(b, out.crop_h)>>,
                !.rect = <<out.x1, out.y1, out.crop_w, out.crop_h>>]
    /\ UNCHANGED program

\* self.stabilizer.passthrough(frame)
StabPassthrough ==
    /\ call.calls < MaxCalls
    /\ LET st == passthrough(call)
       IN call' = [st EXCEPT !.calls = @ + 1, !.op = "passthrough",
                             !.before = <<call.ema_x, call.ema_y>>]
    /\ UNCHANGED program

\* self.stabilizer.reset()
StabReset ==
    /\ call.calls < MaxCalls
    /\ call' = [call EXCEPT !.ema_x = None, !.ema_y = None,
                            !.calls = @ + 1, !.op = "reset",
                            !.before = <<call.ema_x, call.ema_y>>]
    /\ UNCHANGED program

StabNext == StabUpdate \/ StabPassthrough \/ StabReset

StabSpec == StabInit /\ [][StabNext]_vars


(***************************************************************************)
(* calibrate_course.py: CourseCalibrator.run_interactive.  The variable    *)
(* call holds the calibrator (gates, speed_index), the place of its loop   *)
(* (at: "start", "loop", "done"), the key read last, and the output file:  *)
(* None while it was not written, else <<gates written>>.                  *)
(***************************************************************************)
\* most gates recorded in one session
MaxCalGates == 3

\* index of the speed preset at the start, and of the last preset
DEFAULT_SPEED_INDEX == 2
LastSpeedIndex == 4

\* positions the camera reports, pan and tilt in hundredths of a degree;
\* None when the query fails
CalPositions == { [pan |-> 1234, tilt |-> 512, zoom |-> 1000],
                  [pan |-> -2038, tilt |-> 377, zoom |-> 3000] }

\* round(x, 1), in tenths, of x in hundredths (no position reported is half
\* way between two tenths)
Round1(x) == (x + 5) \div 10

CalInit ==
    /\ Standby
    /\ call = [at |-> "start", gates |-> <<>>, speed_index |-> DEFAULT_SPEED_INDEX,
               file |-> None, key |-> "none"]

\* lines 268-275: the camera or the preview cannot be reached, return
CalConnect ==
    /\ call.at = "start"
    /\ \E ok \in BOOLEAN :
         call' = [call EXCEPT !.at = IF ok THEN "loop" ELSE "done"]
    /\ UNCHANGED program

\* arrows, + and -: the camera is moved, the calibrator is as it was
CalJog ==
    /\ call.at = "loop"
    /\ \E key \in {"left", "right", "up", "down", "+", "-"} :
         call' = [call EXCEPT !.key = key]
    /\ UNCHANGED program

\* Page Up, Page Down
CalSpeed ==
    /\ call.at = "loop"
    /\ \E key \in {"pgup", "pgdn"} :
         call' = [call EXCEPT
                !.key = key,
                !.speed_index = IF key = "pgup" THEN Min(LastSpeedIndex, @ + 1)
                                ELSE Max(0, @ - 1)]
    /\ UNCHANGED program

\* g: record_gate
record_gate ==
    /\ call.at = "loop"
    /\ Len(call.gates) < MaxCalGates
    /\ \E pos \in CalPositions \cup {None} :
         call' = [call EXCEPT
                !.key = "g",
                !.gates = IF pos = None THEN @
                          ELSE Append(@, [id |-> Len(@) + 1, name |-> "Gate",
                                          pan |-> Round1(pos.pan),
                                          tilt |-> Round1(pos.tilt),
                                          zoom |-> pos.zoom,
                                          trigger_zone |-> NullZone])]
    /\ UNCHANGED program

\* s: mark_start
mark_start ==
    /\ call.at = "loop"
    /\ call' = [call EXCEPT
           !.key = "s",
           !.gates = IF @ = <<>> THEN @
                     ELSE [@ EXCEPT ![Len(@)].name = "Start",
                                    ![Len(@)].trigger_zone = Zone("exit")]]
    /\ UNCHANGED program

\* f: mark_finish
mark_finish ==
    /\ call.at = "loop"
    /\ call' = [call EXCEPT
           !.key = "f",
           !.gates = IF @ = <<>> THEN @ ELSE [@ EXCEPT ![Len(@)].name = "Finish"]]
    /\ UNCHANGED program

\* d: delete_last_gate
delete_last_gate ==
    /\ call.at = "loop"
    /\ call' = [call EXCEPT
           !.key = "d",
           !.gates = IF @ = <<>> THEN @ ELSE SubSeq(@, 1, Len(@) - 1)]
    /\ UNCHANGED program

\* l, p, v: list_gates, preview_gates, the position is printed
CalInspect ==
    /\ call.at = "loop"
    /\ \E key \in {"l", "p", "v"} : call' = [call EXCEPT !.key = key]
    /\ UNCHANGED program

\* mutant: q saves whatever was recorded
CalSave_Always ==
    /\ call.at = "loop"
    /\ call' = [call EXCEPT !.key = "q", !.at = "done", !.file = <<call.gates>>]
    /\ UNCHANGED program

\* q: save_config(output_path) if a gate is recorded, then break
CalSave ==
    /\ call.at = "loop"
    /\ call' = [call EXCEPT
           !.key = "q", !.at = "done",
           !.file = IF call.gates # <<>> THEN <<call.gates>> ELSE @]
    /\ UNCHANGED program

\* Esc: break
CalQuit ==
    /\ call.at = "loop"
    /\ call' = [call EXCEPT !.key = "esc", !.at = "done"]
    /\ UNCHANGED program

\* an exception in the loop (Ctrl-C among them) leaves through "finally"
CalInterrupt ==
    /\ call.at = "loop"
    /\ call' = [call EXCEPT !.key = "none", !.at = "done"]
    /\ UNCHANGED program

CalNext ==
    \/ CalConnect
    \/ CalJog
    \/ CalSpeed
    \/ record_gate
    \/ mark_start
    \/ mark_finish
    \/ delete_last_gate
    \/ CalInspect
    \/ CalSave
    \/ CalQuit
    \/ CalInterrupt

CalSpec == CalInit /\ [][CalNext]_vars

(***************************************************************************)
(* Properties.                                                             *)
(***************************************************************************)
StartZone == get_start_gate(course).trigger_zone
ExitZone == ~StartZone.null /\ StartZone.enabled /\ StartZone.direction = "exit"
EnterZone == ~StartZone.null /\ StartZone.enabled /\ StartZone.direction = "enter"
LastIndex == num_gates(course) - 1
Sent(request) == \E i \in 1..Len(ptz) : ptz[i] = request
\* the latest step was a TRACKING iteration that found the racer lost for
\* more than 3 * lost_timeout
HardLossFrame ==
    /\ last.op = "tracking"
    /\ last.racer = None
    /\ last.elapsed > 3 * lost_timeout

C3_GateIndexMonotonic ==
    /\ 0 <= current_gate_index
    /\ current_gate_index <= LastIndex
    /\ (last.from = STATE_TRACKING /\ state = STATE_TRACKING)
           => current_gate_index >= last.gate

\* the index has advanced inside a session that goes on
C3_Witness ==
    /\ last.from = STATE_TRACKING
    /\ state = STATE_TRACKING
    /\ current_gate_index = last.gate + 1

\* C4: every entry into TRACKING (start trigger or manual start) sets
\* current_gate_index to the course's start index, whatever index the
\* previous session left.
C4_SessionStartsAtStartIndex ==
    (state = STATE_TRACKING /\ last.from # STATE_TRACKING)
        => current_gate_index = get_start_index(course)

\* a session begins while the index of the previous session is another one
C4_Witness ==
    /\ state = STATE_TRACKING
    /\ last.from = STATE_WAITING
    /\ last.gate # get_start_index(course)

\* C5: a TRACKING iteration that selected the racer never leaves the
\* controller in TRACKING with current_gate_index at the last index: at the
\* last index it goes to FINISHED, also when the session began there.
C5_FinishAtLastIndex ==
    (last.op = "tracking" /\ last.racer # None /\ state = STATE_TRACKING)
        => current_gate_index < LastIndex

\* C6: a frame processed in FINISHED more than the hold (3 s) after the entry
\* into FINISHED takes the controller to WAITING, and no frame does before
\* the hold has passed since that entry.
C6_HoldTimedFromEntry ==
    last.op = "finished"
        => /\ last.elapsed > finish_hold => state = STATE_WAITING
           /\ state = STATE_WAITING => last.elapsed >= finish_hold

\* C7: exit trigger.  After 3 (or more) consecutive in-zone frames, a frame
\* with a detection but none in the zone fires WAITING->TRACKING and leaves
\* frames_in_zone at 0; a frame with no detection at all leaves it at 0 and
\* does not fire (2 in-zone frames before it or any other number).
C7_ExitTrigger ==
    (last.op = "waiting" /\ ExitZone)
        => /\ (last.before >= debounce_frames /\ ~last.in_zone /\ last.in_frame)
                 => (last.fired /\ state = STATE_TRACKING /\ frames_in_zone = 0)
           /\ ~last.in_frame
                 => /\ ~last.fired
                    /\ frames_in_zone = 0
                    /\ last.key = NoKey => state = STATE_WAITING

\* exactly 3 in-zone frames, then the racer is seen outside the zone
C7_Witness ==
    /\ last.op = "waiting"
    /\ ExitZone
    /\ last.before = debounce_frames
    /\ ~last.in_zone
    /\ last.in_frame
    /\ state = STATE_TRACKING

\* C8: exit trigger.  frames_in_zone is 0 after every WAITING frame with no
\* centroid in the zone, whatever the counter was.
C8_ResetOutsideZone ==
    (last.op = "waiting" /\ ExitZone /\ ~last.in_zone) => frames_in_zone = 0

\* C9: enter trigger.  The trigger fires exactly on the frame that completes
\* 3 consecutive in-zone frames.
C9_EnterNeedsConsecutive ==
    (last.op = "waiting" /\ EnterZone) => (last.fired <=> last.streak >= debounce_frames)

\* C10 as written: a hard-loss frame issues stop and goes to WAITING, and
\* without a key TRACKING->WAITING happens on such a frame only.
C10_HardLossStops ==
    /\ HardLossFrame => (state = STATE_WAITING /\ Sent(ptz_stop))
    /\ (last.from = STATE_TRACKING /\ state = STATE_WAITING /\ last.key = NoKey)
           => HardLossFrame

\* C10, amended: a hard-loss frame goes to WAITING and, when not in dry-run,
\* issues stop; without a key TRACKING->WAITING happens on such a frame only.
C10_HardLossStopsUnlessDryRun ==
    /\ HardLossFrame => (state = STATE_WAITING /\ (~dry_run => Sent(ptz_stop)))
    /\ (last.from = STATE_TRACKING /\ state = STATE_WAITING /\ last.key = NoKey)
           => HardLossFrame

\* the run is abandoned on a frame without the racer and the camera is stopped
C10_Witness ==
    /\ HardLossFrame
    /\ last.key = NoKey
    /\ state = STATE_WAITING
    /\ Sent(ptz_stop)


\* the latest step was a TRACKING iteration that selected no racer
LostFrame == last.op = "tracking" /\ last.racer = None
\* the dead-reckoning request for the gate and the loss the latest step saw:
\* interpolate(current gate, next gate clamped to the last index, progress),
\* progress = clamp((elapsed - lost_timeout) / est_segment_time, 0, 1)
LostTarget ==
    LET next_idx == Min(last.gate + 1, LastIndex)
        num == Max(0, Min(est_segment_time, last.elapsed - lost_timeout))
        target == interpolate_ptz(course[last.gate + 1], course[next_idx + 1],
                                  num, est_segment_time)
    IN move_absolute(target.pan_den, target.tilt_den, est_segment_time,
                     target.zoom, lost_speed)

Command ==
    LET c == compute_ptz_correction(last.racer, course, last.gate)
    IN move_continuous(c.pan_speed, c.tilt_speed)
\* the latest step was a TRACKING iteration that selected a racer
RacerFrame == last.op = "tracking" /\ last.racer # None

\* C12: the control law sends its command only on a TRACKING frame with a
\* racer, at least 1 / ptz_update_hz after it last sent one, and what it sends
\* is the command computed on that very frame; no continuous move other than
\* a stop is sent anywhere else, so a dropped command is never sent later.
C12_RateLimited ==
    /\ last.moved => /\ RacerFrame
                     /\ last.gap * ptz_update_hz >= 1
                     /\ ptz # <<>> /\ ptz[1] = Command
    /\ \A i \in 1..Len(ptz) :
           (ptz[i].op = "continuouspantiltmove" /\ ptz[i] # ptz_stop)
               => (last.moved /\ i = 1)

\* a command is sent after an earlier one, and is no stop
C12_Witness ==
    /\ last.moved
    /\ since_move = 0
    /\ last.gap # NeverMoved
    /\ Command # ptz_stop


\* C13: on each axis, a normalised error smaller than the axis's dead zone
\* gives speed 0 on that axis, for every position, direction and anticipation.
C13_DeadZoneGivesZero ==
    law.done
        => /\ InDeadZone(ErrorX(law.bbox, law.pan_direction, law.cfg),
                         law.cfg.pan_dead_zone, frame_w) => law.pan_speed = 0
           /\ InDeadZone(ErrorY(law.bbox), law.cfg.tilt_dead_zone, frame_h)
                  => law.tilt_speed = 0


\* C14: the control law's speeds are within the configured maxima on both
\* axes, and the continuous move made of them has both axes in [-100, 100],
\* for every bbox (centroids outside the frame too) and every maximum.
C14_SpeedsBounded ==
    law.done
        => /\ Abs(law.pan_speed) <= law.cfg.max_pan_speed
           /\ Abs(law.tilt_speed) <= law.cfg.max_tilt_speed
           /\ Abs(law.request.pan) <= speed_limit
           /\ Abs(law.request.tilt) <= speed_limit

\* a centroid outside the frame and maxima above 100: both clamps act
C14_Witness ==
    /\ law.done
    /\ Cx2(law.bbox) > 2 * frame_w
    /\ Cy2(law.bbox) < 0
    /\ law.cfg.max_pan_speed > speed_limit
    /\ law.pan_speed = law.cfg.max_pan_speed
    /\ law.tilt_speed = -law.cfg.max_tilt_speed
    /\ law.request.pan = speed_limit
    /\ law.request.tilt = -speed_limit


\* the latest step took the controller into WAITING
EnteredWaiting == state = STATE_WAITING /\ last.from # STATE_WAITING
\* the absolute move to the start gate
MoveToStart ==
    LET g == course[get_start_index(course) + 1]
    IN move_absolute(g.pan, g.tilt, 1, g.zoom, start_speed)

Unset == ema_x = None /\ ema_y = None

\* C16: the smoothed crop position is unset right after every transition into
\* WAITING or TRACKING, hence all the time the controller is in WAITING, and
\* in TRACKING until the first frame of the session that selects a racer.
C16_StabilizerUnset ==
    /\ state = STATE_WAITING => Unset
    /\ (state = STATE_TRACKING /\ last.from # STATE_TRACKING) => Unset
    /\ (state = STATE_TRACKING /\ prev_bbox = None) => Unset

\* back in WAITING after a run that the racer finished: the stabilizer was
\* updated on the frames of that run
C16_Witness ==
    /\ ~debug
    /\ last.op = "finished"
    /\ state = STATE_WAITING
    /\ Unset


\* C17: when the loop has ended, by whatever path, and not in dry-run, the
\* last request sent is the stop (continuous move 0, 0): none follows it.
C17_StopOnEveryExit ==
    pc = "done" => (~dry_run => (ptz # <<>> /\ ptz[Len(ptz)] = ptz_stop))

\* the loop ended on an error raised in its body, the camera was stopped
C17_Witness ==
    /\ pc = "done"
    /\ last.op = "waiting"
    /\ ~dry_run
    /\ ptz # <<>> /\ ptz[Len(ptz)] = ptz_stop


\* C18: once the shutdown flag is cleared run() ends, in every controller
\* state, also while the stream is down in the loop or before it.
C18_ShutdownTerminates == (~running) ~> (pc = "done")


\* C19: a configuration with no gates ends the process at startup: the loop
\* is never entered and the controller never leaves IDLE on such a course.
C19_NoLoopWithoutGates ==
    num_gates(course) = 0 => (pc # "loop" /\ state = STATE_IDLE)


\* C20: an iteration that obtains no frame leaves state, current_gate_index,
\* prev_bbox, frames_in_zone and the smoothed crop position as they were,
\* leaves the time of the last detection as it was (its age grows by the
\* time slept and is not reset), and the loop goes on.
C20_GrabFailKeepsTracking ==
    [][last'.op = "grab_fail"
         => /\ state' = state
            /\ current_gate_index' = current_gate_index
            /\ prev_bbox' = prev_bbox
            /\ frames_in_zone' = frames_in_zone
            /\ ema_x' = ema_x /\ ema_y' = ema_y
            /\ \E dt \in {reconnect_delay, reconnect_delay + retry_delay} :
                   last_detection_time'
                       = Elapse(last_detection_time, dt, DetectionCap)
            /\ pc' = "loop" /\ running']_vars

\* the stream fails in the middle of a run: a racer is being followed past
\* the start gate and the crop position has been smoothed
C20_Witness ==
    /\ last.op = "grab_fail"
    /\ pc = "loop"
    /\ state = STATE_TRACKING
    /\ current_gate_index > get_start_index(course)
    /\ prev_bbox # None
    /\ ema_x # None /\ ema_y # None


\* the same but for the record of what the transport did
Masked(a, b) ==
    [a EXCEPT !.link = TRUE, !.failed = FALSE]
        = [b EXCEPT !.link = TRUE, !.failed = FALSE]
\* self at the head of a step of dt seconds, the camera in or out of reach
Linked(up, dt) == Aged([Self EXCEPT !.link = up], dt)
\* what the loop body makes of a frame, by the state the frame finds
FrameOutcome(up, dt, detections, key, beat) ==
    Outcome(IF state = STATE_WAITING
            THEN WaitingBody(Linked(up, dt), detections, key, beat)
            ELSE IF state = STATE_TRACKING
            THEN TrackingBody(Linked(up, dt), detections, key, beat)
            ELSE FinishedBody(Linked(up, dt), beat))
FrameKeys ==
    IF ~debug THEN {NoKey}
    ELSE IF state = STATE_WAITING THEN WaitingKeys
    ELSE IF state = STATE_TRACKING THEN TrackingKeySet
    ELSE {NoKey}

\* C21: whatever the frame, the detections, the time and the key, a step
\* taken with the camera out of reach leaves the same state and tracking
\* values, raises nothing, and attempts the same requests, each once, as the
\* step taken with the camera in reach; so do the start and the exit.
C21_TransportMasked ==
    /\ pc = "init"
         => Masked(transition_to(Send(Linked(FALSE, 0), get_position), STATE_WAITING),
                   transition_to(Send(Linked(TRUE, 0), get_position), STATE_WAITING))
    /\ (pc = "loop" /\ running)
         => \A dt \in 0..MaxDt, detections \in DetectionLists, key \in FrameKeys,
               beat \in BOOLEAN :
                Masked(FrameOutcome(FALSE, dt, detections, key, beat),
                       FrameOutcome(TRUE, dt, detections, key, beat))
    /\ pc = "loop" => Masked(cleanup(Linked(FALSE, 0)), cleanup(Linked(TRUE, 0)))
    /\ (last.failed /\ last.op \in {"start", "waiting", "tracking", "finished"})
         => pc = "loop"

\* the continuous move of the control law was lost in transport and the run
\* goes on: the racer is followed past the start gate
C21_Witness ==
    /\ last.failed
    /\ last.op = "tracking" /\ last.moved
    /\ pc = "loop" /\ state = STATE_TRACKING
    /\ current_gate_index > 0
    /\ Len(ptz) = 1 /\ ptz[1].op = "continuouspantiltmove"


\* C22: every iteration that has a frame hands exactly one frame to the
\* output sinks, in WAITING, TRACKING and FINISHED and on a hard loss.
C22_OneFramePerIteration ==
    last.op \in {"waiting", "tracking", "finished"} => last.pushed = 1


\* the call of select_racer that was made: its arguments and what it returned
Given == call.detections
Prior == call.prev_bbox
Chosen == call.result
\* the centroid of the i-th detection is as near to the prior's as any
IsNearest(i) == \A j \in 1..Len(Given) : Dist2(Given[i], Prior) <= Dist2(Given[j], Prior)
\* the squared distance of the i-th detection exceeds (0.3 x diagonal)^2;
\* Dist2 is four times the squared distance
BeyondReach(i) ==
    Dist2(Given[i], Prior) * 100 > 4 * 9 * (frame_w * frame_w + frame_h * frame_h)

C25_ZoomAtLeastOne == call.done => call.result >= 1

\* the last gate the span reaches from the gate of the call
SpanEnd == Min(call.index + gates_ahead, num_gates(call.gates) - 1)
\* int(average zoom of the span / zoom_margin), zoom_margin in hundredths
SpanZoom ==
    Trunc(SumZoom(call.gates, call.index, SpanEnd) * 100,
          (SpanEnd - call.index + 1) * zoom_margin)

\* C26: when the span ends at the gate itself the result is the gate's zoom;
\* otherwise it is max(1, average zoom of the span / zoom_margin), whatever
\* the pans of the gates (the quotient is taken to the integer below, which
\* is what the example of the claim needs: 3000 / 1.2 = 2500).
C26_ZoomIsSpanAverage ==
    call.done
        => call.result = IF SpanEnd <= call.index
                         THEN call.gates[call.index + 1].zoom
                         ELSE Max(1, SpanZoom)


Between(x, a, b) == Min(a, b) <= x /\ x <= Max(a, b)

\* C27: interpolate_ptz returns exactly gate_a's pan, tilt and zoom for a
\* progress <= 0, exactly gate_b's for a progress >= 1, and in between a pan
\* and a tilt on the segment between the two gates' values.
C27_InterpolateEndpoints ==
    call.done =>
        /\ call.progress <= 0 =>
               /\ call.result.pan = call.gate_a.pan
               /\ call.result.tilt = call.gate_a.tilt
               /\ call.result.zoom = call.gate_a.zoom
        /\ call.progress >= Quarters =>
               /\ call.result.pan = call.gate_b.pan
               /\ call.result.tilt = call.gate_b.tilt
               /\ call.result.zoom = call.gate_b.zoom
        /\ (0 < call.progress /\ call.progress < Quarters) =>
               /\ Between(call.result.pan, call.gate_a.pan, call.gate_b.pan)
               /\ Between(call.result.tilt, call.gate_a.tilt, call.gate_b.tilt)

\* the exact interpolated zoom, in quarters (the gates' zooms are positive)
ExactZoom4 ==
    LET t == Max(0, Min(Quarters, call.progress))
    IN call.gate_a.zoom * Quarters + (call.gate_b.zoom - call.gate_a.zoom) * t

\* C28: the zoom interpolate_ptz returns is the linearly interpolated zoom
\* rounded to the nearest integer, a half rounding up.
C28_ZoomRoundedToNearest ==
    call.done =>
        call.result.zoom = (2 * ExactZoom4 + Quarters) \div (2 * Quarters)


\* a * desired + (1 - a) * held, to the hundredth of a pixel the smoothed
\* origin is held to
Smoothed(new, held, desired) ==
    /\ 100 * new[1] <= call.alpha * desired + (100 - call.alpha) * held[1]
    /\ call.alpha * desired + (100 - call.alpha) * held[1] < 100 * new[1] + 100

\* C29: the first update after a reset (or the construction) sets the
\* smoothed crop origin to the desired origin exactly; each later update
\* sets it to alpha * desired + (1 - alpha) * the smoothed origin before;
\* passthrough leaves the smoothed state as it was.
C29_EmaUpdate ==
    /\ (call.op = "update" /\ call.before = <<None, None>>) =>
           /\ call.ema_x = <<call.desired[1]>>
           /\ call.ema_y = <<call.desired[2]>>
    /\ (call.op = "update" /\ call.before # <<None, None>>) =>
           /\ call.before[1] # None /\ call.before[2] # None
           /\ Smoothed(call.ema_x, call.before[1], call.desired[1])
           /\ Smoothed(call.ema_y, call.before[2], call.desired[2])
    /\ call.op = "passthrough" =>
           <<call.ema_x, call.ema_y>> = call.before

\* an update on a held origin that differs from the desired one, with a
\* weight below 1, as the third call on the stabilizer
C29_Witness ==
    /\ call.op = "update"
    /\ call.calls = 3
    /\ call.alpha = 25
    /\ call.before[1] # None
    /\ call.before[1][1] # call.desired[1]
    /\ call.ema_x[1] # call.desired[1]
    /\ call.ema_x # call.before[1]

\* C30: the crop rectangle of an update lies inside the frame, for every
\* frame size, overscan in [0, 1) and bbox: 0 <= x1, x1 + crop_w <= w,
\* 0 <= y1, y1 + crop_h <= h.
C30_CropInsideFrame ==
    call.op = "update" =>
        /\ 0 <= call.rect[1]
        /\ call.rect[1] + call.rect[3] <= call.frame[1]
        /\ 0 <= call.rect[2]
        /\ call.rect[2] + call.rect[4] <= call.frame[2]

\* an update whose desired origin is beyond the right and the lower edge
\* of the frame, cut at the last place the crop fits
C30_Witness ==
    /\ call.op = "update"
    /\ call.overscan_pct = 15
    /\ call.ema_x[1] > 100 * (call.frame[1] - call.rect[3])
    /\ call.ema_y[1] > 100 * (call.frame[2] - call.rect[4])
    /\ call.rect[1] = call.frame[1] - call.rect[3]
    /\ call.rect[2] = call.frame[2] - call.rect[4]
    /\ call.rect[3] > 0


\* the last request of the latest step is r, when requests are sent at all
Closes(r) == ~dry_run => (ptz # <<>> /\ ptz[Len(ptz)] = r)

\* C31: a transition forced by a key (space in WAITING, esc or r in
\* TRACKING) leaves what the automatic transition into the same state
\* leaves: the entry actions of the state it enters.  Whatever keys and
\* automatic transitions meet, in one iteration too, the gate index stays
\* within the course, a session starts at the start index, and WAITING is
\* entered with its resets.
C31_ForcedAsAutomatic ==
    /\ 0 <= current_gate_index /\ current_gate_index <= LastIndex
    /\ (last.op = "waiting" /\ state = STATE_TRACKING)
           => /\ last.fired \/ last.key = "space"
              /\ current_gate_index = get_start_index(course)
              /\ last_detection_time = 0
              /\ prev_bbox = None
              /\ Unset
              /\ Closes(set_zoom(compute_zoom_for_span(course,
                                                       get_start_index(course))))
    /\ (last.op = "tracking" /\ state = STATE_FINISHED)
           => /\ last.racer # None \/ last.key = "esc"
              /\ finish_time = None
              /\ Closes(ptz_stop)
    /\ (last.op = "tracking" /\ state = STATE_WAITING)
           => /\ HardLossFrame \/ last.key = "r"
              /\ frames_in_zone = 0
              /\ prev_bbox = None
              /\ Unset
              /\ Closes(MoveToStart)

\* the racer reaches the last gate and the operator resets on the same
\* frame: FINISHED is entered (stop) and left for WAITING in one iteration
C31_Witness ==
    /\ last.op = "tracking"
    /\ last.key = "r"
    /\ last.racer # None
    /\ last.gate < LastIndex
    /\ current_gate_index = LastIndex
    /\ state = STATE_WAITING
    /\ ~dry_run
    /\ Sent(ptz_stop)
    /\ ptz[Len(ptz)] = MoveToStart


\* self at the head of a step of dt seconds, started with or without --dry-run
Rehearsed(dry, dt) == Aged([Self EXCEPT !.dry_run = dry], dt)
\* what the loop body makes of a frame, with or without --dry-run
DryOutcome(dry, dt, detections, key, beat) ==
    Outcome(IF state = STATE_WAITING
            THEN WaitingBody(Rehearsed(dry, dt), detections, key, beat)
            ELSE IF state = STATE_TRACKING
            THEN TrackingBody(Rehearsed(dry, dt), detections, key, beat)
            ELSE FinishedBody(Rehearsed(dry, dt), beat))
\* a step but for the requests it sent
Silenced(s) == [s EXCEPT !.ptz = <<>>, !.moved = FALSE, !.dry_run = TRUE]

\* C32: in dry-run no step sends a request of any kind, and every step (the
\* start, a frame in any state with any detections, time, key and
\* heartbeat, the exit) leaves the state and the tracking values that the
\* same step leaves outside dry-run.
C32_DryRunSilent ==
    dry_run =>
        /\ ptz = <<>>
        /\ pc = "init" =>
               LET dry == transition_to(Send(Self, get_position), STATE_WAITING)
                   live == transition_to(Send([Self EXCEPT !.dry_run = FALSE],
                                              get_position), STATE_WAITING)
               IN dry.ptz = <<>> /\ live.ptz # <<>> /\ Silenced(dry) = Silenced(live)
        /\ (pc = "loop" /\ running) =>
               \A dt \in 0..MaxDt, detections \in DetectionLists,
                  key \in FrameKeys, beat \in BOOLEAN :
                    /\ DryOutcome(TRUE, dt, detections, key, beat).ptz = <<>>
                    /\ Silenced(DryOutcome(TRUE, dt, detections, key, beat))
                         = Silenced(DryOutcome(FALSE, dt, detections, key, beat))
        /\ pc = "loop" =>
               /\ cleanup(Self).ptz = <<>>
               /\ Silenced(cleanup(Self))
                      = Silenced(cleanup([Self EXCEPT !.dry_run = FALSE]))

\* a dry run in which the racer passes a gate on a frame on which the
\* control law is due: outside dry-run the frame sends a move and a zoom
C32_Witness ==
    /\ dry_run
    /\ last.op = "tracking"
    /\ last.racer # None
    /\ last.gap * ptz_update_hz >= 1
    /\ current_gate_index = last.gate + 1
    /\ state = STATE_TRACKING
    /\ ptz = <<>>


\* C33: the calibration tool has written the config file exactly when the
\* session was ended with q while at least one gate was recorded; what it
\* wrote are the gates recorded then, so a saved config has a gate.
C33_SavedOnlyWithGates ==
    /\ call.file # None
           <=> (call.at = "done" /\ call.key = "q" /\ call.gates # <<>>)
    /\ call.file # None
           => (call.file[1] = call.gates /\ Len(call.file[1]) >= 1)

\* a session saved with a start gate and a finish gate at two positions
C33_Witness ==
    /\ call.at = "done"
    /\ call.file # None
    /\ Len(call.file[1]) = 2
    /\ call.file[1][1].name = "Start"
    /\ call.file[1][2].name = "Finish"
    /\ call.file[1][2].pan # call.file[1][1].pan


\* the gate after the one the latest step began at has the lower pan
NextPanLower ==
    /\ last.gate < LastIndex
    /\ course[last.gate + 2].pan < course[last.gate + 1].pan
\* the racer of the latest step is in the leading-edge band of the frame
InLeadingBand ==
    IF NextPanLower
    THEN 100 * Cx2(last.racer) < 2 * frame_w * gate_advance_pct
    ELSE 100 * Cx2(last.racer) > 2 * frame_w * (100 - gate_advance_pct)

\* C34: a TRACKING frame with a racer selected raises current_gate_index by
\* exactly 1 when the racer's centroid is in the leading-edge band (left of
\* gate_advance_pct of the width when the next gate's pan is lower, right
\* of 1 - gate_advance_pct otherwise) and the index is below the last, and
\* leaves it as it was otherwise; no frame raises it by more than 1.
C34_GateAdvance ==
    /\ RacerFrame
           => current_gate_index
                  = IF InLeadingBand /\ last.gate < LastIndex
                    THEN last.gate + 1 ELSE last.gate
    /\ last.op = "tracking" => current_gate_index <= last.gate + 1

\* the racer passes a gate of a course whose next gate is at the same pan:
\* the leading edge is the right one
C34_Witness ==
    /\ RacerFrame
    /\ last.gate < LastIndex
    /\ course[last.gate + 2].pan = course[last.gate + 1].pan
    /\ current_gate_index = last.gate + 1


\* the latest step entered TRACKING
SessionBegan == last.op = "waiting" /\ state = STATE_TRACKING
\* the latest step moved on to the next gate
GateAdvanced == last.op = "tracking" /\ current_gate_index # last.gate
\* the set-zoom for the index the latest step left
ZoomForIndex == set_zoom(compute_zoom_for_span(course, current_gate_index))

\* C35: current_gate_index changes only at an entry into TRACKING and at a
\* gate advancement; each of the two sends, in the same iteration and when
\* not in dry-run, the set-zoom of zoom_for_span of the new index, and no
\* set-zoom is sent in any other iteration.
C35_ZoomFollowsIndex ==
    /\ current_gate_index # last.gate => (SessionBegan \/ GateAdvanced)
    /\ (SessionBegan \/ GateAdvanced) => (~dry_run => Sent(ZoomForIndex))
    /\ \A i \in 1..Len(ptz) :
           ptz[i].op = "zoom"
               => ((SessionBegan \/ GateAdvanced) /\ ptz[i] = ZoomForIndex)

\* a gate is passed: the zoom of the new span is set, and it is another one
\* than that of the span before
C35_Witness ==
    /\ GateAdvanced
    /\ ~dry_run
    /\ Sent(ZoomForIndex)
    /\ compute_zoom_for_span(course, current_gate_index)
           # compute_zoom_for_span(course, last.gate)


\* what the control law returns on the inputs of the latest call with the
\* anticipation factor set to 0
Unbiased == ptz_correction(law.bbox, law.pan_direction,
                           [law.cfg EXCEPT !.anticipation = 0])

\* C36: the anticipation acts on the pan axis only and toward the direction
\* of travel: with the next gate at a lower pan the pan speed is never
\* greater than without anticipation, with the next gate at a higher pan
\* never smaller; the tilt speed is the same with and without it.
C36_AnticipationTowardTravel ==
    law.done
        => /\ law.pan_direction < 0 => law.pan_speed <= Unbiased.pan_speed
           /\ law.pan_direction > 0 => law.pan_speed >= Unbiased.pan_speed
           /\ law.tilt_speed = Unbiased.tilt_speed


\* the step enters WAITING
IntoWaiting == state' = STATE_WAITING /\ state # STATE_WAITING
\* the step leaves the gate index, the previous bbox and the time of the
\* last detection (whose age grows by the time the step took) as they were
TrackingValuesKept ==
    /\ current_gate_index' = current_gate_index
    /\ prev_bbox' = prev_bbox
    /\ \E dt \in 0..MaxDt :
           last_detection_time' = Elapse(last_detection_time, dt, DetectionCap)

\* C37 as written: frames_in_zone changes only in a WAITING iteration or at
\* a transition into WAITING; a WAITING iteration that does not fire the
\* trigger and a FINISHED iteration that does not end the hold leave
\* current_gate_index, prev_bbox and last_detection_time as they were.
C37_TriggerOnlyInWaiting ==
    [][/\ frames_in_zone' # frames_in_zone
              => (last'.op = "waiting" \/ IntoWaiting)
       /\ (last'.op = "waiting" /\ ~last'.fired) => TrackingValuesKept
       /\ (last'.op = "finished" /\ state' = STATE_FINISHED)
              => TrackingValuesKept]_vars

\* C37, amended: the same, for a WAITING iteration that neither fires the
\* trigger nor reads the key of the manual start.
C37_TriggerOnlyInWaitingNoKey ==
    [][/\ frames_in_zone' # frames_in_zone
              => (last'.op = "waiting" \/ IntoWaiting)
       /\ (last'.op = "waiting" /\ ~last'.fired /\ last'.key # "space")
              => TrackingValuesKept
       /\ (last'.op = "finished" /\ state' = STATE_FINISHED)
              => TrackingValuesKept]_vars

\* a person is in the frame of a WAITING iteration after a session that
\* went past the start gate; nothing fires and no key is read
C37_Witness ==
    /\ last.op = "waiting"
    /\ ~last.fired
    /\ last.key = NoKey
    /\ last.in_frame
    /\ state = STATE_WAITING
    /\ current_gate_index > get_start_index(course)


\* a request that moves the camera in pan or tilt
Motion(r) == r.op \in {"continuouspantiltmove", "move_absolute"}

\* C38: a continuous move other than a stop is sent only by a TRACKING
\* iteration that selected a racer; an iteration that began in WAITING or
\* FINISHED sends no motion command but the absolute move to the start gate
\* when it enters WAITING (and the stop of cleanup() when it ends the
\* program); the iteration that enters FINISHED ends on the stop.
C38_NoDriveOutsideTracking ==
    /\ \A i \in 1..Len(ptz) :
           (ptz[i].op = "continuouspantiltmove" /\ ptz[i] # ptz_stop)
               => (RacerFrame /\ ptz[i] = Command)
    /\ last.op \in {"waiting", "finished"}
           => \A i \in 1..Len(ptz) :
                  Motion(ptz[i])
                      => \/ ptz[i] = MoveToStart /\ EnteredWaiting
                         \/ ptz[i] = ptz_stop /\ pc = "done"
    /\ (state = STATE_FINISHED /\ last.from # STATE_FINISHED) => Closes(ptz_stop)

\* the hold ends after a session in which the control law drove the camera:
\* the move to the start gate is all that is sent
C38_Witness ==
    /\ last.op = "finished"
    /\ state = STATE_WAITING
    /\ since_move # NeverMoved
    /\ ptz = <<MoveToStart>>


\* C39: on the frame of a hard loss (no racer for more than 3 x lost_timeout)
\* the requests sent are the stop and then the absolute move to the start
\* gate, and nothing else.
C39_HardLossCommands ==
    (HardLossFrame /\ ~dry_run) => ptz = <<ptz_stop, MoveToStart>>


\* the centroid of box lies within 0.3 x the frame diagonal of that of prev
WithinReach(box, prev) ==
    Dist2(box, prev) * 100 * 100
        <= 4 * 30 * 30 * (frame_w * frame_w + frame_h * frame_h)
\* a step in which a TRACKING iteration selected no racer
Dropout == last'.op = "tracking" /\ last'.racer = None
\* what every step does for a session: prev_bbox is unset when TRACKING is
\* entered; a frame without a racer that stays in the session keeps
\* prev_bbox, the gate index and the time of the last detection; a racer
\* selected against a known bbox lies within reach of it; a loss longer than
\* 3 x lost_timeout enters WAITING
SessionKeepsTrack ==
    /\ (state' = STATE_TRACKING /\ state # STATE_TRACKING) => prev_bbox' = None
    /\ (Dropout /\ state' = STATE_TRACKING) => TrackingValuesKept
    /\ (last'.op = "tracking" /\ last'.racer # None /\ prev_bbox # None)
           => WithinReach(last'.racer, prev_bbox)
    /\ (Dropout /\ last'.elapsed > 3 * lost_timeout) => state' = STATE_WAITING

\* C40 as written: prev_bbox is unset at every entry into TRACKING; within a
\* session a frame without a selected racer changes none of prev_bbox,
\* current_gate_index and last_detection_time; only a detection within
\* 0.3 x the frame diagonal of the last accepted bbox is selected after a
\* dropout; and a frame without a racer ends the session only by the hard
\* loss, into WAITING.
C40_SessionEndsByHardLoss ==
    [][/\ SessionKeepsTrack
       /\ (Dropout /\ state' # STATE_TRACKING)
              => (state' = STATE_WAITING /\ last'.elapsed > 3 * lost_timeout)]_vars

\* C40, amended: the same, the last part for a frame on which no operator key
\* is read.
C40_SessionEndsByHardLossNoKey ==
    [][/\ SessionKeepsTrack
       /\ (Dropout /\ state' # STATE_TRACKING /\ last'.key = NoKey)
              => (state' = STATE_WAITING /\ last'.elapsed > 3 * lost_timeout)]_vars

\* a dropout after an accepted bbox, on the last frame before the hard loss:
\* the session goes on with the bbox it had
C40_Witness ==
    /\ LostFrame
    /\ last.key = NoKey
    /\ last.elapsed = 3 * lost_timeout
    /\ state = STATE_TRACKING
    /\ prev_bbox # None

=============================================================================
